---- MODULE Spec2Model ----
(***************************************************************************)
(* Model of the constraint-validator server of eng-platform:               *)
(*   authority_model.py       AuthorityRanker (authority levels, cache)    *)
(*   z3_validator.py          Z3Validator (parser, solver call, explainer) *)
(*   constraint_extractor.py  ConstraintExtractor (completion, fallback)   *)
(*   server.py                the tool handlers built on them              *)
(*                                                                         *)
(* Strings are modelled as sequences of tokens (words and punctuation);    *)
(* whitespace separates tokens.  An Optional value is a sequence of        *)
(* length 0 (None) or 1 (the value).                                       *)
(***************************************************************************)
EXTENDS Integers, Sequences, FiniteSets, TLC

VARIABLES constraint_db, court_cache, ranker_cache, ncalls, call, ret, tool_output,
          constraint_counter, extraction, issued

vars == <<constraint_db, court_cache, ranker_cache, ncalls, call, ret, tool_output,
          constraint_counter, extraction, issued>>

\* The extractor's counter, the extract_constraints calls in progress, and the
\* values the counter has taken, in the order it took them.
extractor_vars == <<constraint_counter, extraction, issued>>

None == <<>>

Some(x) == <<x>>

(***************************************************************************)
(* authority_model.py                                                      *)
(***************************************************************************)

SUPREME_COURT == 1

CIRCUIT_COURT == 2

STATE_SUPREME == 2

DISTRICT_COURT == 3

STATE_APPEALS == 3

TRIAL_COURT == 4

ADMINISTRATIVE == 5

SECONDARY_SOURCE == 6

WITNESS_STATEMENT == 7

DOCUMENT_EVIDENCE == 7

UNKNOWN == 10

\* IntEnum member names; a member declared with a value already taken is an
\* alias, so .name is the name of the first member with that value.
LevelName(level) ==
    CASE level = 1 -> "SUPREME_COURT"
      [] level = 2 -> "CIRCUIT_COURT"
      [] level = 3 -> "DISTRICT_COURT"
      [] level = 4 -> "TRIAL_COURT"
      [] level = 5 -> "ADMINISTRATIVE"
      [] level = 6 -> "SECONDARY_SOURCE"
      [] level = 7 -> "WITNESS_STATEMENT"
      [] OTHER -> "UNKNOWN"

\* Token classes of the regular expressions.
Digits == {"123", "456"}

Ordinals == {"9th"}

FedReporter == {"f.", "f.2d", "f.3d"}

Punct == {":"}

\* str.lower() on one token.
LowerTok(t) ==
    CASE t = "Supreme" -> "supreme"
      [] t = "Court" -> "court"
      [] t = "Circuit" -> "circuit"
      [] t = "District" -> "district"
      [] t = "SCOTUS" -> "scotus"
      [] t = "F.3d" -> "f.3d"
      [] t = "FD-302" -> "fd-302"
      [] t = "United" -> "united"
      [] t = "States" -> "states"
      [] t = "Appeals" -> "appeals"
      [] t = "Ohio" -> "ohio"
      [] OTHER -> t

Lower(text) == [i \in 1..Len(text) |-> LowerTok(text[i])]

\* One regex atom against one (lower-cased) token, re.IGNORECASE.
TokMatch(p, t) ==
    CASE p = "<digits>" -> t \in Digits
      [] p = "<ordinal>" -> t \in Ordinals
      [] p = "<freporter>" -> t \in FedReporter
      [] p = "<word>" -> t \notin Punct
      [] OTHER -> p = LowerTok(t)

MatchAt(pat, text, i) ==
    /\ i + Len(pat) - 1 <= Len(text)
    /\ \A j \in 1..Len(pat) : TokMatch(pat[j], text[i + j - 1])

\* re.search(pattern, text, re.IGNORECASE)
Search(pat, text) == \E i \in 1..Len(text) : MatchAt(pat, text, i)

\* The entries of the COURT_PATTERNS dict display, in source order.
CourtPatternEntries ==
    << [level |-> SUPREME_COURT,
        patterns |-> << <<"supreme", "court", "of", "the", "united", "states">>,
                        <<"u.s.", "supreme", "court">>,
                        <<"scotus">>,
                        <<"<digits>", "u.s.", "<digits>">> >>],
       [level |-> CIRCUIT_COURT,
        patterns |-> << <<"<ordinal>", "circuit">>,
                        <<"court", "of", "appeals", "for", "the", "<ordinal>", "circuit">>,
                        <<"<digits>", "<freporter>", "<digits>">> >>],
       [level |-> DISTRICT_COURT,
        patterns |-> << <<"district", "court">>,
                        <<"u.s.d.c.">>,
                        <<"<digits>", "f.", "supp">> >>],
       [level |-> STATE_SUPREME,
        patterns |-> << <<"supreme", "court", "of", "<word>">>,
                        <<"<word>", "supreme", "court">> >>],
       [level |-> TRIAL_COURT,
        patterns |-> << <<"trial", "court">>,
                        <<"superior", "court">>,
                        <<"county", "court">> >>] >>

\* A dict display evaluates its entries left to right: a key that is already
\* present keeps its position and takes the new value.
RECURSIVE DictDisplay(_, _)
DictDisplay(entries, acc) ==
    IF entries = <<>> THEN acc
    ELSE LET e == Head(entries)
             at == {i \in 1..Len(acc) : acc[i].level = e.level}
         IN  IF at = {}
             THEN DictDisplay(Tail(entries), Append(acc, e))
             ELSE DictDisplay(Tail(entries),
                              [i \in 1..Len(acc) |-> IF i \in at THEN e ELSE acc[i]])

COURT_PATTERNS == DictDisplay(CourtPatternEntries, <<>>)

\* The level of the first COURT_PATTERNS item one of whose patterns is found
\* in the text.
FirstMatch(table, text) ==
    LET hits == {k \in 1..Len(table) :
                    \E p \in 1..Len(table[k].patterns) : Search(table[k].patterns[p], text)}
    IN  IF hits = {} THEN UNKNOWN
        ELSE table[CHOOSE k \in hits : \A m \in hits : k <= m].level

\* AuthorityRanker._detect_from_text
DetectFromText(text) == FirstMatch(COURT_PATTERNS, Lower(text))

States == {"ohio"}

\* AuthorityRanker._detect_jurisdiction
DetectJurisdiction(text) ==
    LET circ == {i \in 1..Len(text) : MatchAt(<<"<ordinal>", "circuit">>, text, i)}
        st == {i \in 1..Len(text) : LowerTok(text[i]) \in States}
    IN  IF circ # {}
        THEN Some(<<text[CHOOSE i \in circ : \A m \in circ : i <= m], "th Circuit">>)
        ELSE IF st # {}
        THEN Some(<<LowerTok(text[CHOOSE i \in st : \A m \in st : i <= m])>>)
        ELSE None

\* any(x in doc_type for x in [...]) on the token level
AnyIn(keywords, text) == \E i \in 1..Len(text) : text[i] \in keywords

\* The doc_type heuristics of detect_authority.
DocTypeLevel(doc_type) ==
    IF AnyIn({"fd-302", "fbi", "interview", "statement"}, doc_type) THEN WITNESS_STATEMENT
    ELSE IF AnyIn({"indictment", "motion", "filing"}, doc_type) THEN TRIAL_COURT
    ELSE IF AnyIn({"email", "memo", "document"}, doc_type) THEN DOCUMENT_EVIDENCE
    ELSE UNKNOWN

\* f"{doc_title}:{court}"
CacheKey(doc_title, court) == doc_title \o <<":">> \o court

\* The level is kept as it is, UNKNOWN included.
IfUnknown_Keep(level, next) == level

\* if level == AuthorityLevel.UNKNOWN: level = <next>
IfUnknown(level, next) == IF level = UNKNOWN THEN next ELSE level

\* The title is tried before the court.
ComputeLevel_TitleFirst(doc_title, court, quote, doc_type) ==
    IF DetectFromText(doc_title) # UNKNOWN THEN DetectFromText(doc_title)
    ELSE IF DetectFromText(court) # UNKNOWN THEN DetectFromText(court)
    ELSE IF DetectFromText(quote) # UNKNOWN THEN DetectFromText(quote)
    ELSE IF DocTypeLevel(doc_type) # UNKNOWN THEN DocTypeLevel(doc_type)
    ELSE DOCUMENT_EVIDENCE

\* The level detect_authority computes on a cache miss: the court, then the
\* title, then the quote, then the doc_type, then DOCUMENT_EVIDENCE.
ComputeLevel(doc_title, court, quote, doc_type) ==
    IfUnknown(IfUnknown(IfUnknown(IfUnknown(DetectFromText(court),
                                            DetectFromText(doc_title)),
                                  DetectFromText(quote)),
                        DocTypeLevel(doc_type)),
              DOCUMENT_EVIDENCE)

\* AuthorityInfo(level=..., court_name=..., jurisdiction=..., binding=...)
AuthorityInfo(level, court_name) ==
    [level |-> level,
     court_name |-> court_name,
     jurisdiction |-> DetectJurisdiction(court_name),
     binding |-> level <= DISTRICT_COURT]

NoInfo == [level |-> UNKNOWN, court_name |-> <<>>, jurisdiction |-> None, binding |-> FALSE]

\* self.court_cache[cache_key] = info; return info
CacheStore(cache, cache_key, info) ==
    [raised |-> FALSE, info |-> info, cache |-> cache @@ (cache_key :> info)]

\* The cache is never read: every lookup computes and stores.
CacheLookup_NoCache(cache, doc_title, court, quote, doc_type) ==
    [raised |-> FALSE,
     info |-> AuthorityInfo(ComputeLevel(doc_title, court, quote, doc_type),
                            IF court # <<>> THEN court ELSE doc_title),
     cache |-> [k \in DOMAIN cache \cup {CacheKey(doc_title, court)} |->
                   IF k = CacheKey(doc_title, court)
                   THEN AuthorityInfo(ComputeLevel(doc_title, court, quote, doc_type),
                                      IF court # <<>> THEN court ELSE doc_title)
                   ELSE cache[k]]]

\* detect_authority after the four fields are lower-cased.
CacheLookup(cache, doc_title, court, quote, doc_type) ==
    IF CacheKey(doc_title, court) \in DOMAIN cache
    THEN [raised |-> FALSE, info |-> cache[CacheKey(doc_title, court)], cache |-> cache]
    ELSE CacheStore(cache, CacheKey(doc_title, court),
                    AuthorityInfo(ComputeLevel(doc_title, court, quote, doc_type),
                                  IF court # <<>> THEN court ELSE doc_title))

\* AuthorityRanker.detect_authority on a source dict that has the four keys;
\* a field is None or Some(text).  (A key that is absent reads as '' and is
\* the same as Some(<<>>).)  None.lower() raises AttributeError before the
\* cache is touched.
DetectAuthority(cache, source) ==
    IF source.doc_title = None \/ source.court = None
       \/ source.quote = None \/ source.doc_type = None
    THEN [raised |-> TRUE, info |-> NoInfo, cache |-> cache]
    ELSE CacheLookup(cache, Lower(source.doc_title[1]), Lower(source.court[1]),
                     Lower(source.quote[1]), Lower(source.doc_type[1]))

EmptyDict == [k \in {} |-> NoInfo]

\* Bounds and input pools of the ranker.
MaxLookups == 2

CourtPool ==
    { None,
      Some(<<>>),
      Some(<<"Supreme", "Court", "of", "the", "United", "States">>),
      Some(<<"Court", "of", "Appeals", "for", "the", "9th", "Circuit">>),
      Some(<<"123", "F.3d", "456">>),
      Some(<<"district", "court">>),
      Some(<<"scotus", ":", "district", "court">>) }

TitlePool ==
    { Some(<<>>), Some(<<"memo">>), Some(<<"memo", ":", "scotus">>) }

QuotePool == { Some(<<>>), Some(<<"SCOTUS">>) }

DocTypePool == { None, Some(<<>>), Some(<<"FD-302">>), Some(<<"motion">>) }

SourcePool ==
    [doc_title : TitlePool, court : CourtPool, quote : QuotePool, doc_type : DocTypePool]

(***************************************************************************)
(* z3_validator.py: the logic_form parser                                  *)
(***************************************************************************)

\* Z3 boolean expressions: op is "var", "const", "not", "and", "or", "implies".
Var(n) == [op |-> "var", name |-> n, args |-> <<>>]

BoolVal(b) == [op |-> "const", name |-> IF b THEN "True" ELSE "False", args |-> <<>>]

NotE(a) == [op |-> "not", name |-> "", args |-> <<a>>]

AndE(as) == [op |-> "and", name |-> "", args |-> as]

OrE(as) == [op |-> "or", name |-> "", args |-> as]

ImpliesE(a, b) == [op |-> "implies", name |-> "", args |-> <<a, b>>]

\* The value of an expression under an assignment of its variables.
RECURSIVE EvalExpr(_, _)
EvalExpr(e, sigma) ==
    CASE e.op = "var" -> sigma[e.name]
      [] e.op = "const" -> e.name = "True"
      [] e.op = "not" -> ~EvalExpr(e.args[1], sigma)
      [] e.op = "and" -> \A k \in 1..Len(e.args) : EvalExpr(e.args[k], sigma)
      [] e.op = "or" -> \E k \in 1..Len(e.args) : EvalExpr(e.args[k], sigma)
      [] OTHER -> EvalExpr(e.args[1], sigma) => EvalExpr(e.args[2], sigma)

\* Tokens of a logic_form: \w+ words and the punctuation below.
LogicPunct == {"(", ")", ",", "==", "!="}

IsWord(t) == t \notin LogicPunct

Numerals == {"42"}

Z3Functions == {"And", "Or", "Not", "Implies"}

\* Python values the eval fallback can produce: a Z3 expression ("z3"), a
\* Python bool ("bool", kept as a constant expression), any other object
\* ("obj": an int, a function), or a raised exception ("raise").
PyZ3(e, n) == [k |-> "z3", e |-> e, next |-> n]

PyBool(b, n) == [k |-> "bool", e |-> BoolVal(b), next |-> n]

PyObj(n) == [k |-> "obj", e |-> BoolVal(FALSE), next |-> n]

PyRaise == [k |-> "raise", e |-> BoolVal(FALSE), next |-> 0]

\* A name or literal looked up in safe_ns (z3_vars shadow the functions).
PyAtom(w, ns, n) ==
    IF w \in {"True", "False"} THEN PyBool(w = "True", n)
    ELSE IF w \in Numerals THEN PyObj(n)
    ELSE IF w \in ns THEN PyZ3(Var(w), n)
    ELSE IF w \in Z3Functions THEN PyObj(n)
    ELSE PyRaise

\* z3.And / Or / Not / Implies applied to evaluated arguments: Python bools
\* are coerced to constants, any other object is rejected, And/Or need at
\* least one Z3 expression among their arguments.
PyApply(f, vals, ns, n) ==
    LET es == [k \in 1..Len(vals) |-> vals[k].e]
        bad == \E k \in 1..Len(vals) : vals[k].k \in {"obj", "raise"}
        anyZ3 == \E k \in 1..Len(vals) : vals[k].k = "z3"
    IN  IF f \in ns \/ f \notin Z3Functions \/ bad THEN PyRaise
        ELSE IF f = "Not"
             THEN IF Len(vals) = 1 THEN PyZ3(NotE(es[1]), n) ELSE PyRaise
        ELSE IF f = "Implies"
             THEN IF Len(vals) = 2 THEN PyZ3(ImpliesE(es[1], es[2]), n) ELSE PyRaise
        ELSE IF ~anyZ3 THEN PyRaise
        ELSE IF f = "And" THEN PyZ3(AndE(es), n)
        ELSE PyZ3(OrE(es), n)

\* Python expression evaluation, for the fragment: names, literals, calls
\* with nested arguments.  t is the token sequence, i the position.
RECURSIVE PyExpr(_, _, _)
RECURSIVE PyArgs(_, _, _, _)
RECURSIVE PyArgsNext(_, _, _, _)
PyCall(f, a, ns) == IF ~a.ok THEN PyRaise ELSE PyApply(f, a.vals, ns, a.next)

PyExpr(t, i, ns) ==
    IF i > Len(t) \/ ~IsWord(t[i]) THEN PyRaise
    ELSE IF i < Len(t) /\ t[i + 1] = "("
         THEN PyCall(t[i], PyArgs(t, i + 2, ns, <<>>), ns)
         ELSE PyAtom(t[i], ns, i + 1)

PyArgs(t, i, ns, acc) ==
    IF i > Len(t) THEN [ok |-> FALSE, vals |-> acc, next |-> 0]
    ELSE IF t[i] = ")" /\ acc = <<>> THEN [ok |-> TRUE, vals |-> acc, next |-> i + 1]
    ELSE PyArgsNext(t, ns, acc, PyExpr(t, i, ns))

PyArgsNext(t, ns, acc, v) ==
    IF v.k = "raise" \/ v.next > Len(t)
    THEN [ok |-> FALSE, vals |-> acc, next |-> 0]
    ELSE IF t[v.next] = ")"
    THEN [ok |-> TRUE, vals |-> Append(acc, v), next |-> v.next + 1]
    ELSE IF t[v.next] = ","
    THEN PyArgs(t, v.next + 1, ns, Append(acc, v))
    ELSE [ok |-> FALSE, vals |-> acc, next |-> 0]

\* bool(a) of a Python object a (a Z3 expression is handled before).
Truthy(a) == IF a.k = "bool" THEN a.e.name = "True" ELSE TRUE

\* The right operand of and / or, which must end the text.
PyRight(t, b) == IF b.k # "raise" /\ b.next = Len(t) + 1 THEN b ELSE PyRaise

\* a and b, a or b: bool() of a symbolic Z3 expression raises, a Python
\* object short-circuits.  Any other continuation is a SyntaxError.
PyBoolOp(t, ns, a) ==
    IF a.k = "raise" THEN PyRaise
    ELSE IF a.next = Len(t) + 1 THEN a
    ELSE IF t[a.next] \notin {"and", "or"} THEN PyRaise
    ELSE IF a.k = "z3" THEN PyRaise
    ELSE IF Truthy(a) = (t[a.next] = "or") THEN a
    ELSE PyRight(t, PyExpr(t, a.next + 1, ns))

\* eval(logic_form, {"__builtins__": {}}, safe_ns)
PyEval(t, ns) == PyBoolOp(t, ns, PyExpr(t, 1, ns))

\* The result of _parse_logic_to_z3: kind "expr" (a Z3 expression), "none"
\* (None is returned) or "pyobj" (a value that is neither); vars is z3_vars
\* after the call.
ParseExpr(e, vs) == [kind |-> "expr", expr |-> e, vars |-> vs]

ParseNone(vs) == [kind |-> "none", expr |-> BoolVal(FALSE), vars |-> vs]

ParsePyObj(vs) == [kind |-> "pyobj", expr |-> BoolVal(FALSE), vars |-> vs]

\* re.match(r'(\w+)\s*<op>\s*(True|False)', logic_form): a prefix match.
CmpMatch(t, op) ==
    /\ Len(t) >= 3
    /\ IsWord(t[1])
    /\ t[2] = op
    /\ t[3] \in {"True", "False"}

\* re.match(r'<f>\((\w+)\)', logic_form)
Call1Match(t, f) ==
    /\ Len(t) >= 4
    /\ t[1] = f /\ t[2] = "(" /\ IsWord(t[3]) /\ t[4] = ")"

\* re.match(r'<f>\((\w+),\s*(\w+)\)', logic_form)
Call2Match(t, f) ==
    /\ Len(t) >= 6
    /\ t[1] = f /\ t[2] = "(" /\ IsWord(t[3]) /\ t[4] = ","
    /\ IsWord(t[5]) /\ t[6] = ")"

\* return eval(...), or None when eval raises
FromEval(v, z3_vars) ==
    IF v.k = "raise" THEN ParseNone(z3_vars)
    ELSE IF v.k = "z3" THEN ParseExpr(v.e, z3_vars)
    ELSE ParsePyObj(z3_vars)

\* Z3Validator._parse_logic_to_z3
ParseLogicToZ3(t, z3_vars) ==
        IF t = <<>> THEN ParseNone(z3_vars)
        ELSE IF CmpMatch(t, "==")
        THEN ParseExpr(IF t[3] = "True" THEN Var(t[1]) ELSE NotE(Var(t[1])),
                       z3_vars \cup {t[1]})
        ELSE IF CmpMatch(t, "!=")
        THEN ParseExpr(IF t[3] = "True" THEN NotE(Var(t[1])) ELSE Var(t[1]),
                       z3_vars \cup {t[1]})
        ELSE IF Call1Match(t, "Not")
        THEN ParseExpr(NotE(Var(t[3])), z3_vars \cup {t[3]})
        ELSE IF Call2Match(t, "And")
        THEN ParseExpr(AndE(<<Var(t[3]), Var(t[5])>>), z3_vars \cup {t[3], t[5]})
        ELSE IF Call2Match(t, "Or")
        THEN ParseExpr(OrE(<<Var(t[3]), Var(t[5])>>), z3_vars \cup {t[3], t[5]})
        ELSE IF Call2Match(t, "Implies")
        THEN ParseExpr(ImpliesE(Var(t[3]), Var(t[5])), z3_vars \cup {t[3], t[5]})
        ELSE FromEval(PyEval(t, z3_vars), z3_vars)

(***************************************************************************)
(* z3_validator.py: the solver, the explainer, validate_consistency        *)
(***************************************************************************)

\* The set of elements of a sequence.
Range(s) == {s[k] : k \in 1..Len(s)}

\* All orderings of a finite set.
Orderings(S) ==
    {s \in [1..Cardinality(S) -> S] : \A a, b \in 1..Cardinality(S) : a # b => s[a] # s[b]}

\* solver.assert_and_track(e, Bool(p)) asserts Bool(p) => e; tracked is the
\* sequence of [p, e].  Bool(name) is one constant per name, whether the name
\* is a variable of a logic_form or a constraint id.
Holds(tracked, sigma) ==
    \A k \in 1..Len(tracked) : sigma[tracked[k].p] => EvalExpr(tracked[k].e, sigma)

SolverNames(tracked, z3_vars) == z3_vars \cup {tracked[k].p : k \in 1..Len(tracked)}

\* The assignments solver.check() accepts: every tracking literal is assumed.
SatAssignments(tracked, z3_vars) ==
    {sigma \in [SolverNames(tracked, z3_vars) -> BOOLEAN] :
        /\ Holds(tracked, sigma)
        /\ \A k \in 1..Len(tracked) : sigma[tracked[k].p]}

\* A set of tracking literals whose assumption contradicts the assertions.
IsCore(tracked, z3_vars, lits) ==
    ~\E sigma \in [SolverNames(tracked, z3_vars) -> BOOLEAN] :
        /\ Holds(tracked, sigma)
        /\ \A p \in lits : sigma[p]

\* solver.unsat_core() with core.minimize: a core none of whose literals can
\* be left out; which one, and in which order, is the solver's choice.
UnsatCores(tracked, z3_vars) ==
    LET lits == {tracked[k].p : k \in 1..Len(tracked)}
        minimal == {c \in SUBSET lits :
                       /\ IsCore(tracked, z3_vars, c)
                       /\ \A p \in c : ~IsCore(tracked, z3_vars, c \ {p})}
    IN  UNION {Orderings(c) : c \in minimal}

\* var_values with every variable read as False.
ModelValues_AllFalse(sigma, z3_vars) == [v \in z3_vars |-> FALSE]

\* var_values: model.evaluate(z3_var, model_completion=True), str(val) == 'True'
ModelValues(sigma, z3_vars) == [v \in z3_vars |-> sigma[v]]

\* The filter without its is_hard test.
ActiveConstraints_NoFilter(constraints, include_soft) == constraints

\* The filter lets the first constraint through whatever its is_hard.
ActiveConstraints_FirstKept(constraints, include_soft) ==
    IF constraints = <<>> THEN <<>>
    ELSE <<Head(constraints)>>
             \o SelectSeq(Tail(constraints), LAMBDA c : include_soft \/ c.is_hard)

\* active_constraints of validate_consistency
ActiveConstraints(constraints, include_soft) ==
    SelectSeq(constraints, LAMBDA c : include_soft \/ c.is_hard)

\* self.constraint_db[c.id] = c for every c of a list
RECURSIVE StoreConstraints(_, _)
StoreConstraints(db, cs) ==
    IF cs = <<>> THEN db
    ELSE LET c == Head(cs)
         IN  StoreConstraints([k \in DOMAIN db \cup {c.id} |-> IF k = c.id THEN c ELSE db[k]],
                              Tail(cs))

\* The variables declared from the variables lists of the active constraints.
DeclaredVars(active) == UNION {Range(active[k].variables) : k \in 1..Len(active)}

\* The loop that parses and tracks the active constraints.  A value that is
\* not None and not a Z3 expression, or a tracking literal used twice, makes
\* assert_and_track raise.
RECURSIVE TrackConstraints(_, _, _)
RECURSIVE TrackOne(_, _, _, _)
TrackConstraints(cs, z3_vars, tracked) ==
    IF cs = <<>> THEN [raised |-> FALSE, tracked |-> tracked, vars |-> z3_vars]
    ELSE TrackOne(cs, tracked, Head(cs).id, ParseLogicToZ3(Head(cs).logic_form, z3_vars))

TrackOne(cs, tracked, id, r) ==
    IF r.kind = "none" THEN TrackConstraints(Tail(cs), r.vars, tracked)
    ELSE IF r.kind = "pyobj" \/ \E k \in 1..Len(tracked) : tracked[k].p = id
    THEN [raised |-> TRUE, tracked |-> tracked, vars |-> r.vars]
    ELSE TrackConstraints(Tail(cs), r.vars, Append(tracked, [p |-> id, e |-> r.expr]))

\* The source dict _explain_pair_conflict builds from a Provenance.
ProvSource(prov) ==
    [doc_title |-> prov.doc_title, court |-> prov.court,
     quote |-> prov.quote, doc_type |-> prov.doc_type]

\* Only an assertion followed by a negation is a direct contradiction.
ConflictType_OneOrder(c_a, c_b) ==
    IF c_a.constraint_type = "assertion" /\ c_b.constraint_type = "negation"
    THEN "direct_contradiction"
    ELSE IF c_a.constraint_type = "temporal" \/ c_b.constraint_type = "temporal"
    THEN "temporal_conflict"
    ELSE "logical_impossibility"

\* conflict_type of _explain_pair_conflict
ConflictType(c_a, c_b) ==
    IF c_a.constraint_type = "assertion" /\ c_b.constraint_type = "negation"
    THEN "direct_contradiction"
    ELSE IF c_a.constraint_type = "negation" /\ c_b.constraint_type = "assertion"
    THEN "direct_contradiction"
    ELSE IF c_a.constraint_type = "temporal" \/ c_b.constraint_type = "temporal"
    THEN "temporal_conflict"
    ELSE "logical_impossibility"

\* ConflictExplanation(...)
ConflictExplanation(c_a, c_b, conflict_type, authority_resolution, resolution_available) ==
    [constraint_a |-> Some(c_a), constraint_b |-> Some(c_b),
     conflict_type |-> conflict_type,
     authority_resolution |-> authority_resolution,
     resolution_available |-> resolution_available]

NoConflict ==
    [constraint_a |-> None, constraint_b |-> None, conflict_type |-> "",
     authority_resolution |-> None, resolution_available |-> FALSE]

\* f"{winner_auth.level.name} ({winner.provenance.doc_title}) overrides ..."
Overrides(winner, winner_auth, loser, loser_auth) ==
    [winner_level |-> LevelName(winner_auth.level),
     winner_title |-> winner.provenance[1].doc_title,
     loser_level |-> LevelName(loser_auth.level),
     loser_title |-> loser.provenance[1].doc_title]

\* authority_resolution of _explain_pair_conflict, given both authorities.
AuthorityResolution(c_a, c_b, auth_a, auth_b) ==
    IF auth_a.level = auth_b.level THEN None
    ELSE IF auth_a.level < auth_b.level THEN Some(Overrides(c_a, auth_a, c_b, auth_b))
    ELSE Some(Overrides(c_b, auth_b, c_a, auth_a))

\* _explain_pair_conflict after the second detect_authority call.
PairAfterB(c_a, c_b, ra, rb) ==
    IF rb.raised THEN [raised |-> TRUE, cache |-> ra.cache, conflict |-> NoConflict]
    ELSE [raised |-> FALSE, cache |-> rb.cache,
          conflict |-> ConflictExplanation(c_a, c_b, ConflictType(c_a, c_b),
                                           AuthorityResolution(c_a, c_b, ra.info, rb.info),
                                           ra.info.level # rb.info.level)]

\* _explain_pair_conflict after the first detect_authority call.
PairAfterA(c_a, c_b, cache, ra) ==
    IF ra.raised THEN [raised |-> TRUE, cache |-> cache, conflict |-> NoConflict]
    ELSE PairAfterB(c_a, c_b, ra, DetectAuthority(ra.cache, ProvSource(c_b.provenance[1])))

\* Z3Validator._explain_pair_conflict
ExplainPairConflict(cache, c_a, c_b) ==
    IF c_a.provenance = None \/ c_b.provenance = None
    THEN [raised |-> FALSE, cache |-> cache,
          conflict |-> ConflictExplanation(c_a, c_b, ConflictType(c_a, c_b), None, FALSE)]
    ELSE PairAfterA(c_a, c_b, cache, DetectAuthority(cache, ProvSource(c_a.provenance[1])))

\* The pairs (i, j), i < j, in the order of the two nested loops.
RECURSIVE PairsFrom(_, _, _)
PairsFrom(i, j, n) ==
    IF i >= n THEN <<>>
    ELSE IF j > n THEN PairsFrom(i + 1, i + 2, n)
    ELSE <<[i |-> i, j |-> j]>> \o PairsFrom(i, j + 1, n)

\* The pair loop of _explain_conflicts; an exception ends it.
RECURSIVE ExplainPairs(_, _, _, _)
RECURSIVE ExplainPairsNext(_, _, _, _)
ExplainPairs(cache, core_constraints, pairs, conflicts) ==
    IF pairs = <<>> THEN [raised |-> FALSE, cache |-> cache, conflicts |-> conflicts]
    ELSE ExplainPairsNext(core_constraints, pairs, conflicts,
                          ExplainPairConflict(cache, core_constraints[Head(pairs).i],
                                              core_constraints[Head(pairs).j]))

ExplainPairsNext(core_constraints, pairs, conflicts, r) ==
    IF r.raised THEN [raised |-> TRUE, cache |-> r.cache, conflicts |-> conflicts]
    ELSE ExplainPairs(r.cache, core_constraints, Tail(pairs), Append(conflicts, r.conflict))

\* core_constraints of _explain_conflicts
CoreConstraints(db, core_ids) ==
    LET known == SelectSeq(core_ids, LAMBDA cid : cid \in DOMAIN db)
    IN  [k \in 1..Len(known) |-> db[known[k]]]

\* _explain_conflicts, given core_constraints
ExplainCore(cache, core_constraints) ==
    IF Len(core_constraints) >= 2
    THEN ExplainPairs(cache, core_constraints, PairsFrom(1, 2, Len(core_constraints)), <<>>)
    ELSE IF Len(core_constraints) = 1
    THEN [raised |-> FALSE, cache |-> cache,
          conflicts |-> <<ConflictExplanation(core_constraints[1], core_constraints[1],
                                              "self_contradiction", None, FALSE)>>]
    ELSE [raised |-> FALSE, cache |-> cache, conflicts |-> <<>>]

\* Z3Validator._explain_conflicts
ExplainConflicts(db, cache, core_ids) == ExplainCore(cache, CoreConstraints(db, core_ids))

\* ValidationResult(...)
ValidationResult(satisfiable, status, model, unsat_core, conflicts, explanation) ==
    [satisfiable |-> satisfiable, status |-> status, model |-> model,
     unsat_core |-> unsat_core, conflicts |-> conflicts, explanation |-> explanation]

NoResult == ValidationResult(FALSE, "", None, None, None, "")

Outcome(raised, result, db, cache, invoked) ==
    [raised |-> raised, result |-> result, db |-> db, cache |-> cache,
     solver_invoked |-> invoked]

\* The unsat branch of validate_consistency for one core.
UnsatOutcome(db, core_ids, x) ==
    IF x.raised THEN Outcome(TRUE, NoResult, db, x.cache, TRUE)
    ELSE Outcome(FALSE,
                 ValidationResult(FALSE, "unsat", None, Some(core_ids), Some(x.conflicts),
                                  "Found conflicting constraints"),
                 db, x.cache, TRUE)

\* The sat branch of validate_consistency for one model.
SatOutcome(db, cache, var_values) ==
    Outcome(FALSE,
            ValidationResult(TRUE, "sat", Some(var_values), None, None,
                             "All constraints are logically consistent"),
            db, cache, TRUE)

\* result = solver.check() and the three branches on it.  decides is whether
\* the solver reaches a verdict (it returns unknown otherwise); the model and
\* the core are the solver's choice.
CheckOutcomes(db, cache, tracked, z3_vars, decides, models) ==
    IF ~decides
    THEN {Outcome(FALSE,
                  ValidationResult(FALSE, "unknown", None, None, None,
                                   "Z3 could not determine satisfiability"),
                  db, cache, TRUE)}
    ELSE IF models # {}
    THEN {SatOutcome(db, cache, ModelValues(sigma, z3_vars)) : sigma \in models}
    ELSE {UnsatOutcome(db, core_ids, ExplainConflicts(db, cache, core_ids)) :
             core_ids \in UnsatCores(tracked, z3_vars)}

\* validate_consistency from the solver's construction on.
SolveOutcomes(db, cache, tr, decides) ==
    IF tr.raised THEN {Outcome(TRUE, NoResult, db, cache, FALSE)}
    ELSE CheckOutcomes(db, cache, tr.tracked, tr.vars, decides,
                       SatAssignments(tr.tracked, tr.vars))

\* validate_consistency after the filter.
ActiveOutcomes(db, cache, active, decides) ==
    IF active = <<>>
    THEN {Outcome(FALSE,
                  ValidationResult(TRUE, "sat", None, None, None,
                                   "No hard constraints to validate"),
                  db, cache, FALSE)}
    ELSE SolveOutcomes(StoreConstraints(db, active), cache,
                       TrackConstraints(active, DeclaredVars(active), <<>>), decides)

\* Z3Validator.validate_consistency: the set of its possible outcomes.
ValidateConsistency(db, cache, constraints, include_soft, decides) ==
    IF constraints = <<>>
    THEN {Outcome(FALSE,
                  ValidationResult(TRUE, "sat", None, None, None,
                                   "No constraints to validate"),
                  db, cache, FALSE)}
    ELSE ActiveOutcomes(db, cache, ActiveConstraints(constraints, include_soft), decides)

\* The status line of validate_consistency_tool; an exception is caught and
\* reported as an error text.
StatusText(o) ==
    IF o.raised THEN "Error validating constraints"
    ELSE IF o.result.satisfiable THEN "SATISFIABLE"
    ELSE "UNSATISFIABLE"

(***************************************************************************)
(* constraint_extractor.py: extract_constraints                            *)
(***************************************************************************)

\* The values of ConstraintType.
ConstraintTypes ==
    {"assertion", "negation", "implication", "temporal", "equivalence", "exclusion"}

\* negation_patterns, then assertion_patterns, of _pattern_extract.
FallbackPatterns ==
    << [pattern |-> <<"did", "not", "<word>">>, ctype |-> "negation"],
       [pattern |-> <<"never", "<word>">>, ctype |-> "negation"],
       [pattern |-> <<"didn't", "<word>">>, ctype |-> "negation"],
       [pattern |-> <<"was", "not", "<word>">>, ctype |-> "negation"],
       [pattern |-> <<"no", "<word>", "was">>, ctype |-> "negation"],
       [pattern |-> <<"<word>", "confirmed", "that">>, ctype |-> "assertion"],
       [pattern |-> <<"<word>", "stated", "that">>, ctype |-> "assertion"],
       [pattern |-> <<"<word>", "was", "<word>">>, ctype |-> "assertion"],
       [pattern |-> <<"<word>", "met", "<word>">>, ctype |-> "assertion"] >>

\* The counter is not advanced.
Mint_Stuck(counter) == counter

\* self.constraint_counter += 1
Mint(counter) == counter + 1

\* f"c_{self.constraint_counter}"
ConstraintId(n) == "c_" \o ToString(n)

\* Every constraint is given the same variable.
FactName_Shared(n) == "fact"

\* f"fact_{self.constraint_counter}"
FactName(n) == "fact_" \o ToString(n)

\* The Constraint a matching pattern makes.
PatternConstraint(n, ctype, provenance) ==
    [id |-> ConstraintId(n),
     constraint_type |-> ctype,
     variables |-> <<FactName(n)>>,
     logic_form |-> <<FactName(n), "==", IF ctype = "negation" THEN "False" ELSE "True">>,
     provenance |-> Some(provenance),
     is_hard |-> TRUE]

\* What a path leaves: the counter, the constraints, the counter's values.
PathResult(counter, constraints, log) ==
    [counter |-> counter, constraints |-> constraints, issued |-> log]

\* ConstraintExtractor._pattern_extract: the two loops over the patterns.
RECURSIVE PatternExtract(_, _, _, _, _, _)
PatternExtract(patterns, counter, quote_lower, provenance, constraints, log) ==
    IF patterns = <<>> THEN PathResult(counter, constraints, log)
    ELSE IF Search(Head(patterns).pattern, quote_lower)
    THEN PatternExtract(Tail(patterns), Mint(counter), quote_lower, provenance,
                        Append(constraints,
                               PatternConstraint(Mint(counter), Head(patterns).ctype,
                                                 provenance)),
                        Append(log, Mint(counter)))
    ELSE PatternExtract(Tail(patterns), counter, quote_lower, provenance, constraints, log)

\* The Constraint built from one element of the reply.
ElementConstraint(n, cd, provenance) ==
    [id |-> ConstraintId(n),
     constraint_type |-> cd.type,
     variables |-> cd.variables,
     logic_form |-> cd.logic_form,
     provenance |-> Some(provenance),
     is_hard |-> cd.is_hard]

\* The loop over constraint_dicts: ConstraintType(...) raises on an unknown
\* type, after the counter is advanced, and the except clause returns [].
RECURSIVE ElementLoop(_, _, _, _, _)
ElementLoop(constraint_dicts, counter, provenance, constraints, log) ==
    IF constraint_dicts = <<>> THEN PathResult(counter, constraints, log)
    ELSE IF Head(constraint_dicts).type \notin ConstraintTypes
    THEN PathResult(Mint(counter), <<>>, Append(log, Mint(counter)))
    ELSE ElementLoop(Tail(constraint_dicts), Mint(counter), provenance,
                     Append(constraints,
                            ElementConstraint(Mint(counter), Head(constraint_dicts),
                                              provenance)),
                     Append(log, Mint(counter)))

\* ConstraintExtractor._llm_extract once the request has completed: a reply
\* of kind "ok" carries the parsed JSON array, any other kind is an exception
\* raised inside the try block.
LlmExtract(counter, response, provenance, log) ==
    IF response.kind # "ok" THEN PathResult(counter, <<>>, log)
    ELSE ElementLoop(response.elements, counter, provenance, <<>>, log)

\* if not constraints: constraints = self._pattern_extract(...)
OrPatternExtract(r, quote, provenance) ==
    IF r.constraints = <<>>
    THEN PatternExtract(FallbackPatterns, r.counter, Lower(quote), provenance, <<>>, r.issued)
    ELSE r

\* Provenance(...) of _extract_from_finding, for a finding that has a quote
\* and a document only.
FindingProvenance(finding) ==
    [doc_title |-> Some(finding.document), court |-> None,
     quote |-> Some(finding.quote), doc_type |-> None]

\* ConstraintExtractor._extract_from_finding from the reply on.
ExtractFromFinding(counter, finding, response, log) ==
    OrPatternExtract(LlmExtract(counter, response, FindingProvenance(finding), log),
                     finding.quote, FindingProvenance(finding))

\* A logic_form that is a JSON array is a Python list, which cannot be hashed.
IsJsonArray(logic_form) == logic_form # <<>> /\ Head(logic_form) = "["

\* Every constraint is kept.
Unique_KeepAll(constraints, seen_logic) == constraints

\* The deduplication loop of extract_constraints.
RECURSIVE Unique(_, _)
Unique(constraints, seen_logic) ==
    IF constraints = <<>> THEN <<>>
    ELSE IF Head(constraints).logic_form \in seen_logic
    THEN Unique(Tail(constraints), seen_logic)
    ELSE <<Head(constraints)>>
            \o Unique(Tail(constraints), seen_logic \cup {Head(constraints).logic_form})

\* The end of extract_constraints: `c.logic_form not in seen_logic` raises
\* TypeError on a list.
Deduplicate(constraints) ==
    IF \E k \in 1..Len(constraints) : IsJsonArray(constraints[k].logic_form)
    THEN [pc |-> "raised", result |-> <<>>]
    ELSE [pc |-> "returned", result |-> Unique(constraints, {})]

\* The next finding, after finding i, that has a quote: the call awaits the
\* completion request for it.  Findings without a quote give [] at once.
NextAwaited(findings, i) ==
    LET later == {j \in (i + 1)..Len(findings) : findings[j].quote # <<>>}
    IN  IF later = {} THEN Len(findings) + 1
        ELSE CHOOSE j \in later : \A m \in later : j <= m

\* A call of extract_constraints: its position, its findings, the finding it
\* awaits the reply for, the constraints gathered, and what the call returned.
Idle ==
    [pc |-> "idle", findings |-> <<>>, i |-> 0, constraints |-> <<>>, result |-> <<>>]

\* The call runs on to its next await or to its end.
RunOn(findings, j, constraints, end) ==
    IF j <= Len(findings)
    THEN [pc |-> "await", findings |-> findings, i |-> j, constraints |-> constraints,
          result |-> <<>>]
    ELSE [pc |-> end.pc, findings |-> findings, i |-> j, constraints |-> constraints,
          result |-> end.result]

\* Bounds and input pools of the extractor.
MaxFindings == 3

Tasks == {"t1", "t2"}

FindingPool ==
    { [quote |-> <<>>, document |-> <<"d0">>],
      [quote |-> <<"Alpha", "was", "not", "seen">>, document |-> <<"d1">>],
      [quote |-> <<"hello">>, document |-> <<"d2">>] }

FindingLists == UNION {[1..n -> FindingPool] : n \in 0..MaxFindings}

Element(type, variables, logic_form) ==
    [type |-> type, variables |-> variables, logic_form |-> logic_form, is_hard |-> TRUE]

\* Replies of the completion service: four ways to fail before the array is
\* parsed, and four arrays.
ResponsePool ==
    { [kind |-> "transport_error", elements |-> <<>>],
      [kind |-> "bad_status", elements |-> <<>>],
      [kind |-> "malformed_json", elements |-> <<>>],
      [kind |-> "bad_shape", elements |-> <<>>],
      [kind |-> "ok", elements |-> <<>>],
      [kind |-> "ok", elements |->
          <<Element("assertion", <<"a">>, <<"a", "==", "True">>),
            Element("negation", <<"a">>, <<"a", "==", "False">>)>>],
      [kind |-> "ok", elements |->
          <<Element("assertion", <<"a">>, <<"a", "==", "True">>),
            Element("bogus", <<"b">>, <<"b", "==", "True">>)>>],
      [kind |-> "ok", elements |->
          <<Element("assertion", <<"a">>, <<"[", "a", "]">>)>>] }

\* The findings of the calls begun so far.
Begun == Len(extraction["t1"].findings) + Len(extraction["t2"].findings)

\* extract_constraints(findings) begins and runs to its first await.
ExtractConstraintsBegin(t, findings) ==
    /\ extraction[t].pc = "idle"
    /\ Begun + Len(findings) <= MaxFindings
    /\ extraction' = [extraction EXCEPT ![t] =
           RunOn(findings, NextAwaited(findings, 0), <<>>, Deduplicate(<<>>))]
    /\ UNCHANGED <<constraint_counter, issued>>
    /\ UNCHANGED <<constraint_db, court_cache, ranker_cache, ncalls, call, ret, tool_output>>

\* What _extract_from_finding gave is added to the call's constraints; call
\* and ret keep the finding, the reply and what they gave.
CompletionResult(t, e, response, r) ==
    /\ constraint_counter' = r.counter
    /\ issued' = r.issued
    /\ call' = [op |-> "_extract_from_finding", task |-> t, finding |-> e.findings[e.i],
                response |-> response]
    /\ ret' = [constraints |-> r.constraints]
    /\ extraction' = [extraction EXCEPT ![t] =
           RunOn(e.findings, NextAwaited(e.findings, e.i),
                 e.constraints \o r.constraints,
                 Deduplicate(e.constraints \o r.constraints))]

\* The awaited completion request of call t ends with a reply; the call runs
\* on to its next await or to its end.
CompletionReturns(t, response) ==
    /\ extraction[t].pc = "await"
    /\ CompletionResult(t, extraction[t], response,
                        ExtractFromFinding(constraint_counter,
                                           extraction[t].findings[extraction[t].i],
                                           response, issued))
    /\ UNCHANGED <<constraint_db, court_cache, ranker_cache, ncalls, tool_output>>

ExtractNext ==
    \/ \E t \in Tasks, findings \in FindingLists : ExtractConstraintsBegin(t, findings)
    \/ \E t \in Tasks, response \in ResponsePool : CompletionReturns(t, response)

(***************************************************************************)
(* Bounds and input pools of the validator                                 *)
(***************************************************************************)

MaxLen == 3

Constraint(id, constraint_type, variables, logic_form, provenance, is_hard) ==
    [id |-> id, constraint_type |-> constraint_type, variables |-> variables,
     logic_form |-> logic_form, provenance |-> provenance, is_hard |-> is_hard]

\* Provenance(...) as _extract_from_finding builds it for a finding without
\* court and doc_type, and two provenances with a court.
ProvNoCourt ==
    Some([doc_title |-> Some(<<"memo">>), court |-> None,
          quote |-> Some(<<"q">>), doc_type |-> None])

ProvSupreme ==
    Some([doc_title |-> Some(<<"opinion">>), court |-> Some(<<"SCOTUS">>),
          quote |-> Some(<<"q">>), doc_type |-> Some(<<"opinion">>)])

ProvDistrict ==
    Some([doc_title |-> Some(<<"order">>), court |-> Some(<<"District", "Court">>),
          quote |-> Some(<<"q">>), doc_type |-> Some(<<"motion">>)])

ConstraintPool ==
    { Constraint("c1", "assertion", <<"X">>, <<"X", "==", "True">>, None, TRUE),
      Constraint("c2", "negation", <<"X">>, <<"X", "==", "False">>, None, TRUE),
      Constraint("c3", "implication", <<"Y">>, <<"Implies", "(", "Y", ",", "Z", ")">>,
                 ProvSupreme, TRUE),
      Constraint("c1", "assertion", <<"X">>, <<"X", "==", "True">>, ProvNoCourt, TRUE),
      Constraint("c2", "negation", <<"X">>, <<"X", "==", "False">>, ProvDistrict, TRUE),
      Constraint("c3", "negation", <<"X">>, <<"X", "!=", "True">>, None, FALSE),
      Constraint("c4", "assertion", <<"X", "Y">>, <<"X", "and", "Y">>, None, TRUE),
      Constraint("c4", "assertion", <<>>, <<"42">>, None, TRUE),
      Constraint("X", "assertion", <<"Y">>, <<"Y", "==", "True">>, None, TRUE),
      Constraint("c5", "exclusion", <<"X">>,
                 <<"And", "(", "X", ",", "Not", "(", "X", ")", ")">>, None, TRUE) }

ConstraintLists == UNION {[1..n -> ConstraintPool] : n \in 0..MaxLen}

NoCall == [op |-> "init"]

Init ==
    /\ constraint_db = [k \in {} |-> None]
    /\ court_cache = EmptyDict
    /\ ranker_cache = EmptyDict
    /\ ncalls = 0
    /\ call = NoCall
    /\ ret = NoCall
    /\ tool_output = "none"
    /\ constraint_counter = 0
    /\ extraction = [t \in {"t1", "t2"} |-> [pc |-> "idle", findings |-> <<>>, i |-> 0,
                                             constraints |-> <<>>, result |-> <<>>]]
    /\ issued = <<>>

\* authority_ranker.detect_authority(source) on the server's ranker.
DetectAuthorityReturn(source, r) ==
    /\ ranker_cache' = r.cache
    /\ call' = [op |-> "detect_authority", source |-> source]
    /\ ret' = [op |-> "detect_authority", raised |-> r.raised, info |-> r.info]

DetectAuthorityCall(source) ==
    /\ ncalls < MaxLookups
    /\ ncalls' = ncalls + 1
    /\ DetectAuthorityReturn(source, DetectAuthority(ranker_cache, source))
    /\ UNCHANGED <<constraint_db, court_cache, tool_output>>
    /\ UNCHANGED extractor_vars

\* validate_consistency_tool(constraints, include_soft) on a fresh server.
ValidateConsistencyTool(constraints, include_soft, decides) ==
    /\ \E o \in ValidateConsistency(constraint_db, court_cache, constraints,
                                    include_soft, decides) :
          /\ constraint_db' = o.db
          /\ court_cache' = o.cache
          /\ call' = [op |-> "validate_consistency", constraints |-> constraints,
                      include_soft |-> include_soft, decides |-> decides]
          /\ ret' = [op |-> "validate_consistency", raised |-> o.raised,
                     result |-> o.result, solver_invoked |-> o.solver_invoked]
          /\ tool_output' = StatusText(o)
    /\ ncalls' = ncalls + 1
    /\ UNCHANGED ranker_cache
    /\ UNCHANGED extractor_vars

\* One tool call is made on the fresh server.
Next ==
    /\ call = NoCall
    /\ \E constraints \in ConstraintLists, include_soft \in BOOLEAN, decides \in BOOLEAN :
          ValidateConsistencyTool(constraints, include_soft, decides)

Spec == Init /\ [][Next]_vars

RankerNext == \E source \in SourcePool : DetectAuthorityCall(source)

RankerSpec == Init /\ [][RankerNext]_vars

(***************************************************************************)
(* authority_model.py: rank_constraints and resolve_conflict               *)
(***************************************************************************)

\* The 'date' item of a source dict: the key may be absent, and its value
\* may be None.
NoDate == [key |-> FALSE, val |-> None]

Date(val) == [key |-> TRUE, val |-> val]

\* Date strings, in the order of Python's string comparison.
DateStrings == <<"2019", "2020", "9999">>

StrLess(a, b) ==
    \E i, j \in 1..Len(DateStrings) : DateStrings[i] = a /\ DateStrings[j] = b /\ i < j

\* source.get('date', '9999')
DateKey(date) == IF date.key THEN date.val ELSE Some("9999")

\* get_authority_key: (auth.level, not auth.binding, source.get('date', '9999'))
AuthorityKey(auth, source) ==
    [level |-> auth.level, not_binding |-> ~auth.binding, date |-> DateKey(source.date)]

\* The comparison of two key tuples raises TypeError: the first two items
\* are equal and the dates are None and a string.
Incomparable(k1, k2) ==
    /\ k1.level = k2.level
    /\ k1.not_binding = k2.not_binding
    /\ (k1.date = None) # (k2.date = None)

\* The dates are compared before the levels.
KeyLess_DateFirst(k1, k2) ==
    IF k1.date # k2.date /\ k1.date # None /\ k2.date # None
    THEN StrLess(k1.date[1], k2.date[1])
    ELSE k1.level < k2.level

\* k1 < k2 on key tuples that can be compared.
KeyLess(k1, k2) ==
    IF k1.level # k2.level THEN k1.level < k2.level
    ELSE IF k1.not_binding # k2.not_binding THEN k2.not_binding
    ELSE IF k1.date = k2.date THEN FALSE
    ELSE StrLess(k1.date[1], k2.date[1])

\* The keys of the constraints, computed in input order on the one cache.
RECURSIVE AuthorityKeys(_, _, _)
RECURSIVE AuthorityKeysNext(_, _, _, _)
AuthorityKeys(cache, cs, keys) ==
    IF cs = <<>> THEN [raised |-> FALSE, cache |-> cache, keys |-> keys]
    ELSE AuthorityKeysNext(cs, keys, Head(cs).source,
                           DetectAuthority(cache, Head(cs).source))

AuthorityKeysNext(cs, keys, source, r) ==
    IF r.raised THEN [raised |-> TRUE, cache |-> r.cache, keys |-> keys]
    ELSE AuthorityKeys(r.cache, Tail(cs), Append(keys, AuthorityKey(r.info, source)))

\* sorted(): the position of item i is the number of items that go before it,
\* those with an equal key and a smaller index included.
SortedPosition(keys, i) ==
    1 + Cardinality({j \in 1..Len(keys) :
                        \/ KeyLess(keys[j], keys[i])
                        \/ (~KeyLess(keys[i], keys[j]) /\ j < i)})

StableSort(cs, keys) ==
    [p \in 1..Len(cs) |-> cs[CHOOSE i \in 1..Len(cs) : SortedPosition(keys, i) = p]]

\* sorted(constraints, key=get_authority_key), given the keys.
SortByKeys(cs, r) ==
    IF r.raised \/ \E i, j \in 1..Len(r.keys) : Incomparable(r.keys[i], r.keys[j])
    THEN [raised |-> TRUE, cache |-> r.cache, ranked |-> <<>>]
    ELSE [raised |-> FALSE, cache |-> r.cache, ranked |-> StableSort(cs, r.keys)]

\* AuthorityRanker.rank_constraints
RankConstraints(cache, constraints) ==
    SortByKeys(constraints, AuthorityKeys(cache, constraints, <<>>))

\* The dict resolve_conflict returns.
Resolution(resolved, winner, loser, reason, constraints, authority_hierarchy) ==
    [resolved |-> resolved, winner |-> winner, loser |-> loser, reason |-> reason,
     constraints |-> constraints, authority_hierarchy |-> authority_hierarchy]

NoResolution == Resolution(FALSE, None, None, <<>>, None, None)

\* 'authority_hierarchy': every lookup is answered from the cache.
AuthorityHierarchy(cache, ranked) ==
    [k \in 1..Len(ranked) |->
        [constraint |-> ranked[k],
         authority |-> LevelName(DetectAuthority(cache, ranked[k].source).info.level)]]

\* winner_auth.level == loser_auth.level, never true.
SameLevel_Never(winner_auth, loser_auth) == FALSE

\* winner_auth.level == loser_auth.level
SameLevel(winner_auth, loser_auth) == winner_auth.level = loser_auth.level

\* resolve_conflict from the comparison of the two levels on.
Resolved(cache, ranked, winner_auth, loser_auth) ==
    IF SameLevel(winner_auth, loser_auth)
    THEN Resolution(FALSE, None, None,
                    <<"Same authority level", LevelName(winner_auth.level)>>,
                    Some(ranked), None)
    ELSE Resolution(TRUE, Some(ranked[1]), Some(ranked[Len(ranked)]),
                    <<LevelName(winner_auth.level), winner_auth.court_name, "overrides",
                      LevelName(loser_auth.level), loser_auth.court_name>>,
                    None, Some(AuthorityHierarchy(cache, ranked)))

\* resolve_conflict after rank_constraints.
ResolveRanked(rk) ==
    IF rk.raised THEN [raised |-> TRUE, cache |-> rk.cache, result |-> NoResolution]
    ELSE [raised |-> FALSE, cache |-> rk.cache,
          result |-> Resolved(rk.cache, rk.ranked,
                              DetectAuthority(rk.cache, rk.ranked[1].source).info,
                              DetectAuthority(rk.cache, rk.ranked[Len(rk.ranked)].source).info)]

\* AuthorityRanker.resolve_conflict
ResolveConflict(cache, conflicting_constraints) ==
    IF conflicting_constraints = <<>>
    THEN [raised |-> FALSE, cache |-> cache,
          result |-> Resolution(FALSE, None, None, <<"No constraints provided">>, None, None)]
    ELSE IF Len(conflicting_constraints) = 1
    THEN [raised |-> FALSE, cache |-> cache,
          result |-> Resolution(TRUE, Some(conflicting_constraints[1]), None,
                                <<"Only one constraint">>, None, None)]
    ELSE ResolveRanked(RankConstraints(cache, conflicting_constraints))

\* Bound and input pool of the ranking operations.
MaxRanked == 3

RankSource(doc_title, court, doc_type, date) ==
    [doc_title |-> Some(doc_title), court |-> Some(court), quote |-> Some(<<>>),
     doc_type |-> Some(doc_type), date |-> date]

RankPool ==
    { [id |-> "sc", source |-> RankSource(<<"opinion">>,
                <<"Supreme", "Court", "of", "the", "United", "States">>, <<>>,
                Date(Some("2020")))],
      [id |-> "d19", source |-> RankSource(<<"order">>, <<"district", "court">>, <<>>,
                Date(Some("2019")))],
      [id |-> "dn", source |-> RankSource(<<"order">>, <<"district", "court">>, <<>>,
                Date(None))],
      [id |-> "da", source |-> RankSource(<<"order">>, <<"district", "court">>, <<>>, NoDate)],
      [id |-> "w", source |-> RankSource(<<"memo">>, <<>>, <<"FD-302">>, NoDate)],
      [id |-> "m1", source |-> RankSource(<<"memo", ":", "scotus">>,
                <<"district", "court">>, <<>>, NoDate)],
      [id |-> "m2", source |-> RankSource(<<"memo">>,
                <<"scotus", ":", "district", "court">>, <<>>, NoDate)] }

RankLists == UNION {[1..n -> RankPool] : n \in 0..MaxRanked}

RankConstraintsReturn(constraints, r) ==
    /\ ranker_cache' = r.cache
    /\ call' = [op |-> "rank_constraints", constraints |-> constraints]
    /\ ret' = [op |-> "rank_constraints", raised |-> r.raised, ranked |-> r.ranked]

\* authority_ranker.rank_constraints(constraints)
RankConstraintsCall(constraints) ==
    /\ RankConstraintsReturn(constraints, RankConstraints(ranker_cache, constraints))
    /\ ncalls' = ncalls + 1
    /\ UNCHANGED <<constraint_db, court_cache, tool_output>>
    /\ UNCHANGED extractor_vars

ResolveConflictReturn(constraints, r) ==
    /\ ranker_cache' = r.cache
    /\ call' = [op |-> "resolve_conflict", constraints |-> constraints]
    /\ ret' = [op |-> "resolve_conflict", raised |-> r.raised, result |-> r.result]

\* authority_ranker.resolve_conflict(conflicting_constraints)
ResolveConflictCall(constraints) ==
    /\ ResolveConflictReturn(constraints, ResolveConflict(ranker_cache, constraints))
    /\ ncalls' = ncalls + 1
    /\ UNCHANGED <<constraint_db, court_cache, tool_output>>
    /\ UNCHANGED extractor_vars

\* One ranking operation on a ranker that is fresh or has answered one lookup.
RankNext ==
    \/ /\ call = NoCall
       /\ \E c \in RankPool : DetectAuthorityCall(c.source)
    \/ /\ call.op \in {"init", "detect_authority"}
       /\ \E constraints \in RankLists : RankConstraintsCall(constraints)
    \/ /\ call.op \in {"init", "detect_authority"}
       /\ \E constraints \in RankLists : ResolveConflictCall(constraints)

RankSpec == Init /\ [][RankNext]_vars

ExtractSpec == Init /\ [][ExtractNext]_vars

(***************************************************************************)
(* z3_validator.py: explain_conflict                                       *)
(***************************************************************************)

\* Z3Validator.explain_conflict after the constraints are put in the
\* constraint_db: the explanations are built from the db.
ExplainConflictReturn(unsat_core, constraints, db, r) ==
    /\ constraint_db' = db
    /\ court_cache' = r.cache
    /\ call' = [op |-> "explain_conflict", unsat_core |-> unsat_core,
                constraints |-> constraints]
    /\ ret' = [op |-> "explain_conflict", raised |-> r.raised, conflicts |-> r.conflicts]

ExplainConflictStored(unsat_core, constraints, db) ==
    ExplainConflictReturn(unsat_core, constraints, db,
                          ExplainConflicts(db, court_cache, unsat_core))

\* validator.explain_conflict(unsat_core, constraints) on the server's validator.
ExplainConflictCall(unsat_core, constraints) ==
    /\ ExplainConflictStored(unsat_core, constraints,
                             StoreConstraints(constraint_db, constraints))
    /\ ncalls' = ncalls + 1
    /\ UNCHANGED <<ranker_cache, tool_output>>
    /\ UNCHANGED extractor_vars

\* Input pools of explain_conflict: provenances of two documents with the same
\* title and court, and constraints of four kinds under three ids.
ProvInterview ==
    Some([doc_title |-> Some(<<"exhibit">>), court |-> Some(<<>>),
          quote |-> Some(<<"q">>), doc_type |-> Some(<<"FD-302">>)])

ProvMotion ==
    Some([doc_title |-> Some(<<"exhibit">>), court |-> Some(<<>>),
          quote |-> Some(<<"q">>), doc_type |-> Some(<<"motion">>)])

ExplainPool ==
    { Constraint("e1", "assertion", <<"X">>, <<"X", "==", "True">>, ProvSupreme, TRUE),
      Constraint("e2", "negation", <<"X">>, <<"X", "==", "False">>, ProvSupreme, TRUE),
      Constraint("e3", "temporal", <<"Y">>, <<"Not", "(", "Y", ")">>, None, TRUE),
      Constraint("e3", "implication", <<"X">>, <<"Implies", "(", "X", ",", "Y", ")">>,
                 ProvInterview, TRUE),
      Constraint("e2", "negation", <<"Y">>, <<"Y", "!=", "True">>, ProvMotion, TRUE),
      Constraint("e1", "assertion", <<"X">>, <<"X", "==", "True">>, ProvNoCourt, TRUE) }

ExplainLists == UNION {[1..n -> ExplainPool] : n \in 0..MaxLen}

CorePool == UNION {Orderings(ids) : ids \in SUBSET {"e1", "e2", "e3"}}

\* A validate_consistency call of one constraint on the fresh server, then one
\* explain_conflict call.
ExplainNext ==
    \/ /\ call = NoCall
       /\ \E c \in ExplainPool : ValidateConsistencyTool(<<c>>, FALSE, TRUE)
    \/ /\ call.op \in {"init", "validate_consistency"}
       /\ \E unsat_core \in CorePool, constraints \in ExplainLists :
             ExplainConflictCall(unsat_core, constraints)

ExplainSpec == Init /\ [][ExplainNext]_vars

(***************************************************************************)
(* Constraint.to_dict and the tools' conversion back                       *)
(***************************************************************************)

\* The members of ConstraintType, each with its name and its value.
ConstraintTypeMembers ==
    { [name |-> "ASSERTION", value |-> "assertion"],
      [name |-> "NEGATION", value |-> "negation"],
      [name |-> "IMPLICATION", value |-> "implication"],
      [name |-> "TEMPORAL", value |-> "temporal"],
      [name |-> "EQUIVALENCE", value |-> "equivalence"],
      [name |-> "EXCLUSION", value |-> "exclusion"] }

\* ConstraintType(value): the member that has the value.
ConstraintTypeOf(value) == CHOOSE m \in ConstraintTypeMembers : m.value = value

\* d.get(key, default) on a dict, which is a function on its keys.
DictGet(d, key, default) == IF key \in DOMAIN d THEN d[key] ELSE default

\* asdict on a Provenance.
ProvenanceAsDict(p) ==
    [doc_id |-> p.doc_id, doc_title |-> p.doc_title, paragraph |-> p.paragraph,
     page |-> p.page, quote |-> p.quote, court |-> p.court, date |-> p.date,
     doc_type |-> p.doc_type]

\* Constraint.to_dict: asdict, with the value of the constraint_type member.
ToDict(c) ==
    [id |-> c.id, constraint_type |-> c.constraint_type.value, subject |-> c.subject,
     predicate |-> c.predicate, variables |-> c.variables, logic_form |-> c.logic_form,
     natural_language |-> c.natural_language, confidence |-> c.confidence,
     provenance |-> IF c.provenance = None THEN None
                    ELSE Some(ProvenanceAsDict(c.provenance[1])),
     is_hard |-> c.is_hard]

\* The Provenance is rebuilt without its date.
ProvenanceOfDict_NoDate(p) ==
    [doc_id |-> DictGet(p, "doc_id", ""), doc_title |-> DictGet(p, "doc_title", ""),
     paragraph |-> DictGet(p, "paragraph", None), page |-> DictGet(p, "page", None),
     quote |-> DictGet(p, "quote", ""), court |-> DictGet(p, "court", None),
     date |-> None, doc_type |-> DictGet(p, "doc_type", None)]

\* Provenance(doc_id=p.get('doc_id', ''), ...) of the two tools.
ProvenanceOfDict(p) ==
    [doc_id |-> DictGet(p, "doc_id", ""), doc_title |-> DictGet(p, "doc_title", ""),
     paragraph |-> DictGet(p, "paragraph", None), page |-> DictGet(p, "page", None),
     quote |-> DictGet(p, "quote", ""), court |-> DictGet(p, "court", None),
     date |-> DictGet(p, "date", None), doc_type |-> DictGet(p, "doc_type", None)]

\* prov of the two tools: None unless cd.get('provenance') is a dict with keys.
ProvOfDict(provenance) ==
    IF provenance = None THEN None
    ELSE IF DOMAIN provenance[1] = {} THEN None
    ELSE Some(ProvenanceOfDict(provenance[1]))

\* Constraint(id=cd.get('id', <default>), ...) of the two tools.
ConstraintOfDict(cd, default_id) ==
    [id |-> DictGet(cd, "id", default_id),
     constraint_type |-> ConstraintTypeOf(DictGet(cd, "constraint_type", "assertion")),
     subject |-> DictGet(cd, "subject", ""),
     predicate |-> DictGet(cd, "predicate", None),
     variables |-> DictGet(cd, "variables", <<>>),
     logic_form |-> DictGet(cd, "logic_form", ""),
     natural_language |-> DictGet(cd, "natural_language", ""),
     confidence |-> DictGet(cd, "confidence", "0.8"),
     provenance |-> ProvOfDict(DictGet(cd, "provenance", None)),
     is_hard |-> DictGet(cd, "is_hard", TRUE)]

\* Input pool: Constraint objects with all their fields, with no provenance,
\* with a Provenance of defaults, and with a Provenance that has every field.
ProvenancePool ==
    { None,
      Some([doc_id |-> "", doc_title |-> "", paragraph |-> None, page |-> None,
            quote |-> "", court |-> None, date |-> None, doc_type |-> None]),
      Some([doc_id |-> "d1", doc_title |-> "Order", paragraph |-> Some(0), page |-> Some(7),
            quote |-> "q", court |-> Some("SCOTUS"), date |-> Some("2020"),
            doc_type |-> Some("motion")]) }

ObjectPool ==
    [id : {"", "c_1"}, constraint_type : ConstraintTypeMembers, subject : {"s"},
     predicate : {None, Some("p")}, variables : {<<>>, <<"a", "b">>},
     logic_form : {"", "a == True"}, natural_language : {"n"},
     confidence : {"0", "0.8"}, provenance : ProvenancePool, is_hard : BOOLEAN]

\* A Constraint is serialized by to_dict and rebuilt as validate_consistency_tool
\* and explain_conflict_tool rebuild their n-th constraint.
RoundTrip(c) ==
    /\ call' = [op |-> "to_dict", constraint |-> c]
    /\ ret' = [op |-> "to_dict", dict |-> ToDict(c),
               validate |-> ConstraintOfDict(ToDict(c), "c_0"),
               explain |-> ConstraintOfDict(ToDict(c), "")]
    /\ UNCHANGED <<constraint_db, court_cache, ranker_cache, ncalls, tool_output>>
    /\ UNCHANGED extractor_vars

RoundTripNext ==
    /\ call = NoCall
    /\ \E c \in ObjectPool : RoundTrip(c)

RoundTripSpec == Init /\ [][RoundTripNext]_vars

(***************************************************************************)
(* z3_validator.py: _parse_logic_to_z3 on its own                          *)
(***************************************************************************)

\* Input pool of the parser: the productions of the grammar over two
\* variables, each alone and followed by a continuation.
Productions ==
    {<<v, op, b>> : v \in {"a", "b"}, op \in {"==", "!="}, b \in {"True", "False"}}
        \cup {<<"Not", "(", v, ")">> : v \in {"a", "b"}}
        \cup {<<f, "(", v, ",", w, ")">> :
                 f \in {"And", "Or", "Implies"}, v \in {"a", "b"}, w \in {"a", "b"}}

Continuations ==
    { <<>>, <<"==", "False">>, <<"and", "b", "==", "False">>, <<"or", "b">>, <<")">> }

LogicForms == {p \o k : p \in Productions, k \in Continuations}

\* self._parse_logic_to_z3(logic_form, z3_vars)
ParseLogicCall(logic_form, z3_vars) ==
    /\ call' = [op |-> "_parse_logic_to_z3", logic_form |-> logic_form, z3_vars |-> z3_vars]
    /\ ret' = ParseLogicToZ3(logic_form, z3_vars)
    /\ UNCHANGED <<constraint_db, court_cache, ranker_cache, ncalls, tool_output>>
    /\ UNCHANGED extractor_vars

ParseNext ==
    /\ call = NoCall
    /\ \E logic_form \in LogicForms, z3_vars \in {{}, {"a", "b"}} :
          ParseLogicCall(logic_form, z3_vars)

ParseSpec == Init /\ [][ParseNext]_vars

(***************************************************************************)
(* The pattern fallback's constraints, validated                           *)
(***************************************************************************)

\* Replies of the completion service that leave _llm_extract without a
\* constraint, so that _extract_from_finding goes on to _pattern_extract.
FailingResponses == {r \in ResponsePool : r.elements = <<>>}

\* The constraints the extractor's calls have gathered so far.
Gathered == extraction["t1"].constraints \o extraction["t2"].constraints

\* The constraints of s at the positions in ks, in their order.
Chosen(s, ks) ==
    LET at == SelectSeq([k \in 1..Len(s) |-> k], LAMBDA k : k \in ks)
    IN  [j \in 1..Len(at) |-> s[at[j]]]

\* The sets of at most MaxLen constraints out of s.
Selections(s) ==
    {Chosen(s, ks) : ks \in {q \in SUBSET (1..Len(s)) : Cardinality(q) <= MaxLen}}

\* The extractor works with a completion service that never gives a
\* constraint; some of what it gathered is then validated, once.
FallbackNext ==
    \/ /\ call.op # "validate_consistency"
       /\ \E t \in Tasks, findings \in FindingLists : ExtractConstraintsBegin(t, findings)
    \/ /\ call.op # "validate_consistency"
       /\ \E t \in Tasks, response \in FailingResponses : CompletionReturns(t, response)
    \/ /\ call.op # "validate_consistency"
       /\ \E constraints \in Selections(Gathered), decides \in BOOLEAN :
             ValidateConsistencyTool(constraints, FALSE, decides)

FallbackSpec == Init /\ [][FallbackNext]_vars

(***************************************************************************)
(* Properties                                                              *)
(***************************************************************************)

IsValidate == call.op = "validate_consistency"

Returned == IsValidate /\ ~ret.raised

NoHardConstraint(cs) == \A k \in 1..Len(cs) : ~cs[k].is_hard

\* C1: a call of validate_consistency with include_soft = false on a list
\* that contains no hard constraint (the empty list included) returns
\* satisfiable = true with status sat, and the solver is not invoked.
C1_NoHardIsSat ==
    (IsValidate /\ ~call.include_soft /\ NoHardConstraint(call.constraints))
        => /\ ~ret.raised
           /\ ret.result.satisfiable
           /\ ret.result.status = "sat"
           /\ ~ret.solver_invoked

\* A call on three soft constraints, made when the solver would not decide.
C1_Witness ==
    /\ IsValidate /\ ~call.include_soft /\ ~call.decides
    /\ Len(call.constraints) = 3
    /\ NoHardConstraint(call.constraints)
    /\ ret.result.status = "sat"

\* The active constraints of the call, and what the tracking loop makes of a
\* list of constraints.
CallActive == ActiveConstraints(call.constraints, call.include_soft)

Tracked(cs) == TrackConstraints(cs, DeclaredVars(cs), <<>>)

\* The conjunction of the parsed expressions has a satisfying assignment.
ConjunctionSat(tr) ==
    \E sigma \in [tr.vars -> BOOLEAN] :
        \A k \in 1..Len(tr.tracked) : EvalExpr(tr.tracked[k].e, sigma)

Ids(cs) == {cs[k].id : k \in 1..Len(cs)}

\* The sub-list of the constraints that satisfy a test.
Those(cs, Test(_)) == SelectSeq(cs, Test)

IsC1(c) == c.id = "c1" /\ c.logic_form = <<"X", "==", "True">> /\ c.is_hard

IsC2(c) == c.id = "c2" /\ c.logic_form = <<"X", "==", "False">> /\ c.is_hard

IsFurther(c) == ~IsC1(c) /\ ~IsC2(c)

\* A further hard constraint over other variables than X.
OverOtherVariables(c) ==
    /\ c.is_hard
    /\ c.id \notin {"c1", "c2"}
    /\ "X" \notin Range(c.variables)
    /\ "X" \notin Range(c.logic_form)

\* The call of C2: one c1, one c2, and further hard constraints over other
\* variables that all parse and are jointly satisfiable.
ContradictionCall(cs, further) ==
    /\ Len(Those(cs, IsC1)) = 1
    /\ Len(Those(cs, IsC2)) = 1
    /\ \A k \in 1..Len(further) : OverOtherVariables(further[k])
    /\ Cardinality(Ids(further)) = Len(further)
    /\ Len(Tracked(further).tracked) = Len(further)
    /\ ConjunctionSat(Tracked(further))

\* C2: hard constraints c1 'X==True' and c2 'X==False' make
\* validate_consistency return unsat with unsat_core exactly {c1, c2}, also
\* when further hard constraints over other variables, jointly satisfiable,
\* are in the call.
C2_ContradictionCore ==
    (IsValidate /\ call.decides
     /\ ContradictionCall(call.constraints, Those(call.constraints, IsFurther)))
        => /\ ~ret.raised
           /\ ret.result.status = "unsat"
           /\ ret.result.unsat_core # None
           /\ Range(ret.result.unsat_core[1]) = {"c1", "c2"}

\* The model assigns a boolean to every declared variable and makes every
\* parsed expression true.
ModelSatisfies(model, tr) ==
    /\ DOMAIN model = tr.vars
    /\ \A v \in tr.vars : model[v] \in BOOLEAN
    /\ \A k \in 1..Len(tr.tracked) : EvalExpr(tr.tracked[k].e, model)

\* C3: when validate_consistency returns sat with a model, the model assigns
\* a boolean to every declared variable and makes the parsed expression of
\* every constraint of the validated set true.
C3_ModelSatisfies ==
    (Returned /\ ret.result.status = "sat" /\ ret.result.model # None)
        => ModelSatisfies(ret.result.model[1], Tracked(CallActive))

\* A sat return on three parsed constraints over three variables, one of
\* which the model makes true.
C3_Witness ==
    /\ Returned /\ ret.result.status = "sat" /\ ret.result.model # None
    /\ Len(Tracked(CallActive).tracked) = 3
    /\ DOMAIN ret.result.model[1] = {"X", "Y", "Z"}
    /\ ret.result.model[1]["X"]

\* The core names active constraints only, and the constraints it names have
\* no common satisfying assignment.
CoreSound(core, active) ==
    /\ core \subseteq Ids(active)
    /\ ~ConjunctionSat(Tracked(SelectSeq(active, LAMBDA c : c.id \in core)))

\* C4: when validate_consistency returns unsat, unsat_core is a subset of the
\* ids of the active constraints and the constraints the core names are, on
\* their own, jointly unsatisfiable.
C4_CoreSound ==
    (Returned /\ ret.result.status = "unsat")
        => CoreSound(Range(ret.result.unsat_core[1]), CallActive)

\* Active constraints with pairwise distinct ids, none of them the name of a
\* variable, whose logic forms all parse, and whose conjunction has no
\* satisfying assignment.
UnsatisfiableSet(active, tr) ==
    /\ Cardinality(Ids(active)) = Len(active)
    /\ Ids(active) \cap tr.vars = {}
    /\ ~tr.raised
    /\ Len(tr.tracked) = Len(active)
    /\ ~ConjunctionSat(tr)

\* C5: on a set whose active constraints are unsatisfiable,
\* validate_consistency returns a result with status unsat, unsat_core and
\* conflicts attached, and never raises, whatever the provenance of the
\* constraints (a null court, doc_type or quote included).
C5_UnsatNeverRaises ==
    (IsValidate /\ call.decides /\ UnsatisfiableSet(CallActive, Tracked(CallActive)))
        => /\ ~ret.raised
           /\ ret.result.status = "unsat"
           /\ ret.result.unsat_core # None
           /\ ret.result.conflicts # None

\* C6: in every result of validate_consistency, model is present iff the
\* status is sat, and unsat_core and conflicts are present iff it is unsat;
\* the early returns are results like any other.
C6_PresentIffStatus ==
    Returned
        => /\ (ret.result.model # None) <=> (ret.result.status = "sat")
           /\ (ret.result.unsat_core # None) <=> (ret.result.status = "unsat")
           /\ (ret.result.conflicts # None) <=> (ret.result.status = "unsat")

\* C7: when the solver cannot decide, the result has status unknown, and
\* neither the result nor the tool's output presents the outcome as
\* satisfiable or as unsatisfiable.
C7_UnknownNotLabelled ==
    (Returned /\ ret.solver_invoked /\ ~call.decides)
        => /\ ret.result.status = "unknown"
           /\ ~ret.result.satisfiable
           /\ tool_output \notin {"SATISFIABLE", "UNSATISFIABLE"}

\* The constraints whose logic_form is turned into a boolean expression, in a
\* formula with the variables z3_vars.
Parseable(cs, z3_vars) ==
    SelectSeq(cs, LAMBDA c : ParseLogicToZ3(c.logic_form, z3_vars).kind = "expr")

\* The verdicts validate_consistency gives a list on a fresh validator.
Verdicts(cs) ==
    {IF o.raised THEN "raised" ELSE o.result.status :
        o \in ValidateConsistency([k \in {} |-> None], EmptyDict, cs, TRUE, TRUE)}

\* C8: a constraint whose logic_form cannot be turned into a boolean
\* expression is dropped; the call is not aborted and its verdict is the one
\* the remaining constraints get on their own.
C8_ParseFailureDropped ==
    (IsValidate /\ call.decides
     /\ Len(Parseable(CallActive, DeclaredVars(CallActive))) < Len(CallActive)
     /\ "raised" \notin Verdicts(Parseable(CallActive, DeclaredVars(CallActive))))
        => /\ ~ret.raised
           /\ ret.result.status \in Verdicts(Parseable(CallActive, DeclaredVars(CallActive)))

IsLookup == call.op = "detect_authority"

\* The text matches one of the patterns listed for a level in the source.
MatchesLevel(level, text) ==
    \E k \in 1..Len(CourtPatternEntries) :
        /\ CourtPatternEntries[k].level = level
        /\ \E p \in 1..Len(CourtPatternEntries[k].patterns) :
              Search(CourtPatternEntries[k].patterns[p], Lower(text))

\* The court of a source names a numbered federal circuit or carries a
\* Federal Reporter citation.
NamesCircuit(court) ==
    \/ Search(<<"<ordinal>", "circuit">>, Lower(court))
    \/ Search(<<"<digits>", "<freporter>", "<digits>">>, Lower(court))

\* C9: a source whose court names a numbered federal circuit or carries a
\* Federal Reporter citation, and matches no Supreme Court pattern, is
\* classified at the CircuitCourt level (ordinal 2) with binding = true.
C9_CircuitCourt ==
    (IsLookup /\ ncalls = 1 /\ ~ret.raised
     /\ NamesCircuit(call.source.court[1])
     /\ ~MatchesLevel(SUPREME_COURT, call.source.court[1]))
        => /\ ret.info.level = CIRCUIT_COURT
           /\ ret.info.binding

\* C10: in any state of the ranker, detect_authority on a source whose court
\* matches a Supreme Court of the United States pattern returns level
\* SupremeCourt (ordinal 1) and binding = true.
C10_SupremeCourt ==
    (IsLookup /\ ~ret.raised /\ MatchesLevel(SUPREME_COURT, call.source.court[1]))
        => /\ ret.info.level = SUPREME_COURT
           /\ ret.info.binding

\* The cache key of a source none of whose fields is null.
KeyOf(source) == CacheKey(Lower(source.doc_title[1]), Lower(source.court[1]))

\* The doc_type rule in the words of the claim.
DocTypeRule(doc_type) ==
    IF AnyIn({"interview", "fbi", "fd-302", "statement"}, doc_type) THEN WITNESS_STATEMENT
    ELSE IF AnyIn({"indictment", "motion", "filing"}, doc_type) THEN TRIAL_COURT
    ELSE DOCUMENT_EVIDENCE

\* The level of the first of the fields that matches a court pattern, or of
\* the doc_type rule when none does.
FirstOf(fields, doc_type) ==
    LET hits == {i \in 1..Len(fields) : DetectFromText(fields[i]) # UNKNOWN}
    IN  IF hits = {} THEN DocTypeRule(doc_type)
        ELSE DetectFromText(fields[CHOOSE i \in hits : \A m \in hits : i <= m])

FallbackLevel(source) ==
    FirstOf(<<Lower(source.court[1]), Lower(source.doc_title[1]), Lower(source.quote[1])>>,
            Lower(source.doc_type[1]))

\* A lookup step that returns and whose key was not in the cache before.
MissStep ==
    /\ call'.op = "detect_authority"
    /\ ~ret'.raised
    /\ KeyOf(call'.source) \notin DOMAIN ranker_cache

C12_NullFieldsTolerated ==
    (IsLookup /\ \E f \in {"doc_title", "court", "quote", "doc_type"} :
                    call.source[f] \in {None, Some(<<>>)})
        => ~ret.raised

CacheStep ==
    /\ \A k \in DOMAIN ranker_cache :
          k \in DOMAIN ranker_cache' /\ ranker_cache'[k] = ranker_cache[k]
    /\ (call'.op = "detect_authority" /\ ~ret'.raised)
          => /\ KeyOf(call'.source) \in DOMAIN ranker_cache'
             /\ ranker_cache'[KeyOf(call'.source)] = ret'.info
             /\ KeyOf(call'.source) \in DOMAIN ranker_cache
                   => ret'.info = ranker_cache[KeyOf(call'.source)]

\* C14: the authority cache is idempotent: lookups with the same
\* (doc_title, court) return the same AuthorityInfo, and a cache entry once
\* written is never changed.
C14_CacheIdempotent == [][CacheStep]_vars

\* The second of two lookups is answered from the cache: its level is not
\* the one its own quote would give.
C14_Witness ==
    /\ IsLookup /\ ~ret.raised /\ ncalls = 2
    /\ Cardinality(DOMAIN ranker_cache) = 1
    /\ ret.info.level # FallbackLevel(call.source)

IsRank == call.op = "rank_constraints"

IsResolve == call.op = "resolve_conflict"

\* The authority a source resolves to on this ranker, once it has been looked
\* up: the entry of its key.
AuthorityOf(c) == ranker_cache[KeyOf(c.source)]

\* The key of the claim: level, not binding, the date or '9999' when the
\* date is missing.
ClaimKey(c) ==
    [level |-> AuthorityOf(c).level,
     not_binding |-> ~AuthorityOf(c).binding,
     date |-> IF c.source.date.key /\ c.source.date.val # None
              THEN c.source.date.val[1] ELSE "9999"]

ClaimKeyLess(k1, k2) ==
    \/ k1.level < k2.level
    \/ k1.level = k2.level /\ ~k1.not_binding /\ k2.not_binding
    \/ k1.level = k2.level /\ k1.not_binding = k2.not_binding /\ StrLess(k1.date, k2.date)

\* out is in by a rearrangement p under which the keys ascend and items with
\* equal keys keep their order.
SortedStably(in, out) ==
    /\ Len(out) = Len(in)
    /\ \E p \in [1..Len(in) -> 1..Len(in)] :
          /\ \A a, b \in 1..Len(in) : a # b => p[a] # p[b]
          /\ \A a \in 1..Len(in) : out[a] = in[p[a]]
          /\ \A a, b \in 1..Len(in) :
                a < b => /\ ~ClaimKeyLess(ClaimKey(out[b]), ClaimKey(out[a]))
                         /\ ClaimKey(out[a]) = ClaimKey(out[b]) => p[a] < p[b]

\* out is a rearrangement of in.
IsPermutation(in, out) ==
    /\ Len(out) = Len(in)
    /\ \E p \in [1..Len(in) -> 1..Len(in)] :
          /\ \A a, b \in 1..Len(in) : a # b => p[a] # p[b]
          /\ \A a \in 1..Len(in) : out[a] = in[p[a]]

\* C15: rank_constraints returns a permutation of its input sorted ascending
\* by (authority level, not binding, date or '9999' when the date is
\* missing), and constraints with equal keys keep their input order.
C15_RankSorted ==
    IsRank => /\ ~ret.raised
              /\ SortedStably(call.constraints, ret.ranked)

\* The levels the sources of a list resolve to.
Levels(cs) == {AuthorityOf(cs[k]).level : k \in 1..Len(cs)}

MatchingPatterns(quote) ==
    LET Matches(p) == Search(p.pattern, Lower(quote))
    IN  SelectSeq(FallbackPatterns, Matches)

\* cs is what the pattern fallback gives for a quote: one hard constraint per
\* matching pattern, in order, over one fact variable of its own, set to False
\* by a negation pattern and to True by an assertion pattern.
IsPatternFallback(cs, quote) ==
    /\ Len(cs) = Len(MatchingPatterns(quote))
    /\ \A j \in 1..Len(cs) :
          /\ cs[j].constraint_type = MatchingPatterns(quote)[j].ctype
          /\ cs[j].is_hard
          /\ cs[j].variables = <<cs[j].logic_form[1]>>
          /\ cs[j].logic_form[2] = "=="
          /\ cs[j].logic_form[3] =
                (IF cs[j].constraint_type = "negation" THEN "False" ELSE "True")
          /\ cs[j].provenance[1].quote = Some(quote)

\* The completion path failed on this reply.
CompletionFailed(response) ==
    \/ response.kind # "ok"
    \/ \E k \in 1..Len(response.elements) : response.elements[k].type \notin ConstraintTypes

IsCompletion == call.op = "_extract_from_finding"

\* A finding whose completion failed gave the constraints of the fallback.
FailuresFallBack ==
    (IsCompletion /\ CompletionFailed(call.response))
        => IsPatternFallback(ret.constraints, call.finding.quote)

\* C18: whatever the completion service replies for a finding with a quote,
\* extract_constraints raises nothing, and a finding whose completion failed
\* gives exactly the constraints of the pattern fallback.
C18_FailuresAbsorbed ==
    /\ \A t \in Tasks : extraction[t].pc # "raised"
    /\ FailuresFallBack

HasReturned(t) == extraction[t].pc = "returned"

\* The position in cs of the first constraint that has the logic_form.
FirstWith(cs, logic_form) ==
    CHOOSE k \in 1..Len(cs) :
        /\ cs[k].logic_form = logic_form
        /\ \A m \in 1..(k - 1) : cs[m].logic_form # logic_form

\* out holds one constraint per logic_form of all: the first one of all.
FirstOccurrences(all, out) ==
    /\ \A j, k \in 1..Len(out) : j # k => out[j].logic_form # out[k].logic_form
    /\ {out[k].logic_form : k \in 1..Len(out)} = {all[k].logic_form : k \in 1..Len(all)}
    /\ \A k \in 1..Len(out) : out[k] = all[FirstWith(all, out[k].logic_form)]

\* C19: the list extract_constraints returns has no two constraints with the
\* same logic_form, has every logic_form its findings produced, and keeps for
\* each the constraint of its first occurrence in finding order.
C19_DeduplicatedByLogicForm ==
    \A t \in Tasks :
        HasReturned(t) => FirstOccurrences(extraction[t].constraints, extraction[t].result)

\* A call over the same finding twice returned, with the later duplicates dropped.
C19_Witness ==
    \E t \in Tasks :
        /\ HasReturned(t)
        /\ Len(extraction[t].findings) = 2
        /\ extraction[t].findings[1] = extraction[t].findings[2]
        /\ extraction[t].result # <<>>
        /\ Len(extraction[t].result) < Len(extraction[t].constraints)

\* The ids of the constraints call t has gathered.
GatheredIds(t) ==
    {extraction[t].constraints[k].id : k \in 1..Len(extraction[t].constraints)}

\* Where a constraint has been put: a call and a position in what it gathered.
Places == UNION {{<<t, k>> : k \in 1..Len(extraction[t].constraints)} : t \in Tasks}

IdAt(p) == extraction[p[1]].constraints[p[2]].id

\* C20: whatever the interleaving of the calls, no two constraints have the same
\* id, every id is made from a value the counter took, and the counter's values
\* were taken in strictly increasing order.
C20_IdsUniqueAndIncreasing ==
    /\ \A p, q \in Places : p # q => IdAt(p) # IdAt(q)
    /\ \A p \in Places : \E k \in 1..Len(issued) : IdAt(p) = ConstraintId(issued[k])
    /\ \A j, k \in 1..Len(issued) : j < k => issued[j] < issued[k]

\* Two calls have interleaved: one took ids, awaited its next reply while the
\* other took ids, and then took ids again.
C20_Witness ==
    \E t, u \in Tasks : \E a, b, c \in 1..Len(issued) :
        /\ t # u
        /\ a < b /\ b < c
        /\ ConstraintId(issued[a]) \in GatheredIds(t)
        /\ ConstraintId(issued[b]) \in GatheredIds(u)
        /\ ConstraintId(issued[c]) \in GatheredIds(t)

IsExplain == call.op = "explain_conflict"

\* The constraints supplied with the call that have the id.
Supplied(id) == SelectSeq(call.constraints, LAMBDA c : c.id = id)

\* Every id of the core names one supplied constraint, and no id is repeated.
CoreKnown ==
    /\ \A k \in 1..Len(call.unsat_core) : Len(Supplied(call.unsat_core[k])) = 1
    /\ Cardinality(Range(call.unsat_core)) = Len(call.unsat_core)

\* The explanations whose two sides are the constraints named a and b.
ExplanationsOf(conflicts, a, b) ==
    {k \in 1..Len(conflicts) :
        {conflicts[k].constraint_a[1], conflicts[k].constraint_b[1]}
            = {Supplied(a)[1], Supplied(b)[1]}}

\* One explanation of a constraint against itself.
SelfContradiction(conflicts, c) ==
    /\ Len(conflicts) = 1
    /\ conflicts[1].conflict_type = "self_contradiction"
    /\ conflicts[1].constraint_a = Some(c)
    /\ conflicts[1].constraint_b = Some(c)
    /\ ~conflicts[1].resolution_available

\* n(n-1)/2 explanations, one for every unordered pair of the core.
EveryPair(conflicts, core) ==
    /\ 2 * Len(conflicts) = Len(core) * (Len(core) - 1)
    /\ \A i, j \in 1..Len(core) :
          i < j => Cardinality(ExplanationsOf(conflicts, core[i], core[j])) = 1

\* What C21 says of the explanations of a known core.
ExplainedAsClaimed ==
    /\ Len(call.unsat_core) = 1
          => SelfContradiction(ret.conflicts, Supplied(call.unsat_core[1])[1])
    /\ Len(call.unsat_core) >= 2 => EveryPair(ret.conflicts, call.unsat_core)

\* C21: for a core whose ids all name known, pairwise distinct constraints,
\* explain_conflict returns one SelfContradiction explanation when the core
\* has one constraint, and one explanation for every unordered pair of the
\* core, n(n-1)/2 in all, when it has two or more.
C21_EveryPairExplained ==
    (IsExplain /\ CoreKnown) => (~ret.raised /\ ExplainedAsClaimed)

\* The same, for the calls that return.
ExplainedWhenReturned ==
    (IsExplain /\ CoreKnown /\ ~ret.raised) => ExplainedAsClaimed

\* Both sides of every explanation are constraints supplied with the call.
FromSupplied(conflicts, constraints) ==
    \A k \in 1..Len(conflicts) :
        /\ conflicts[k].constraint_a[1] \in Range(constraints)
        /\ conflicts[k].constraint_b[1] \in Range(constraints)

\* C22: explain_conflict explains the supplied constraints only; an id of
\* unsat_core that no supplied constraint has is skipped, also when an earlier
\* call on the validator handled a constraint with that id.
C22_OnlySuppliedConstraints ==
    IsExplain => FromSupplied(ret.conflicts, call.constraints)

\* The same, for a call on a validator that has stored no constraint before.
SuppliedOnFreshValidator ==
    [][(call = NoCall /\ call'.op = "explain_conflict")
          => FromSupplied(ret'.conflicts, call'.constraints)]_vars

\* The authority level of the source of a constraint that carries provenance.
LevelOf(c) == FallbackLevel(ProvSource(c.provenance[1]))

\* The sentence that says winner overrides loser.
SaysOverrides(resolution, winner, loser) ==
    /\ resolution # None
    /\ resolution[1].winner_level = LevelName(LevelOf(winner))
    /\ resolution[1].winner_title = winner.provenance[1].doc_title
    /\ resolution[1].loser_level = LevelName(LevelOf(loser))
    /\ resolution[1].loser_title = loser.provenance[1].doc_title

\* What C23 says of the explanation x of a pair c_a, c_b with provenance.
ResolvedByAuthority(x, c_a, c_b) ==
    /\ x.resolution_available <=> (LevelOf(c_a) # LevelOf(c_b))
    /\ LevelOf(c_a) = LevelOf(c_b) => x.authority_resolution = None
    /\ LevelOf(c_a) < LevelOf(c_b) => SaysOverrides(x.authority_resolution, c_a, c_b)
    /\ LevelOf(c_b) < LevelOf(c_a) => SaysOverrides(x.authority_resolution, c_b, c_a)

\* The explanations of pairs of which both sides carry provenance.
PairsWithProvenance(conflicts) ==
    {k \in 1..Len(conflicts) :
        /\ conflicts[k].conflict_type # "self_contradiction"
        /\ conflicts[k].constraint_a[1].provenance # None
        /\ conflicts[k].constraint_b[1].provenance # None}

\* C23: for a pair whose two constraints carry provenance,
\* resolution_available is true iff the authority levels of the two sources
\* differ; then authority_resolution says that the side with the lower
\* ordinal overrides the other; when the levels are equal it is null.
C23_ResolutionIffLevelsDiffer ==
    IsExplain =>
        \A k \in PairsWithProvenance(ret.conflicts) :
            ResolvedByAuthority(ret.conflicts[k], ret.conflicts[k].constraint_a[1],
                                ret.conflicts[k].constraint_b[1])

\* The level the validator's ranker has cached for the source of c.
CachedLevel(c) == court_cache[KeyOf(ProvSource(c.provenance[1]))].level

\* resolution_available follows the levels the ranker returned.
ResolutionByCachedLevels ==
    IsExplain =>
        \A k \in PairsWithProvenance(ret.conflicts) :
            ret.conflicts[k].resolution_available
                <=> (CachedLevel(ret.conflicts[k].constraint_a[1])
                        # CachedLevel(ret.conflicts[k].constraint_b[1]))

\* The classification of a pair from the kinds of its two sides.
Classification(kinds) ==
    IF kinds = {"assertion", "negation"} THEN "direct_contradiction"
    ELSE IF "temporal" \in kinds THEN "temporal_conflict"
    ELSE "logical_impossibility"

\* The explanations of pairs.
PairExplanations(conflicts) ==
    {k \in 1..Len(conflicts) : conflicts[k].conflict_type # "self_contradiction"}

\* C24: the conflict_type of a pair is DirectContradiction when one side is an
\* Assertion and the other a Negation, in either order; otherwise
\* TemporalConflict when either side is Temporal; otherwise
\* LogicalImpossibility; and it is the same for the swapped pair.
C24_ConflictTypeClassified ==
    IsExplain =>
        \A k \in PairExplanations(ret.conflicts) :
            /\ ret.conflicts[k].conflict_type
                  = Classification({ret.conflicts[k].constraint_a[1].constraint_type,
                                    ret.conflicts[k].constraint_b[1].constraint_type})
            /\ ret.conflicts[k].conflict_type
                  = ConflictType(ret.conflicts[k].constraint_b[1],
                                 ret.conflicts[k].constraint_a[1])

\* A core of three explained: a negation against an assertion, in this order,
\* and each of them against a temporal constraint.
C24_Witness ==
    /\ IsExplain /\ ~ret.raised
    /\ Len(ret.conflicts) = 3
    /\ ret.conflicts[1].constraint_a[1].constraint_type = "negation"
    /\ ret.conflicts[1].constraint_b[1].constraint_type = "assertion"
    /\ ret.conflicts[1].conflict_type = "direct_contradiction"
    /\ ret.conflicts[2].conflict_type = "temporal_conflict"
    /\ ret.conflicts[3].conflict_type = "temporal_conflict"

IsRoundTrip == call.op = "to_dict"

\* C25: a Constraint serialized by to_dict and rebuilt as the
\* validate_consistency and explain_conflict tools rebuild it is equal to the
\* original in every field, those of its Provenance and a null provenance
\* included.
C25_RoundTrip ==
    IsRoundTrip => /\ ret.validate = call.constraint
                   /\ ret.explain = call.constraint

\* The round trip of a constraint with an empty id, a temporal kind and a
\* Provenance of which every field is set.
C25_Witness ==
    /\ IsRoundTrip
    /\ call.constraint.id = ""
    /\ call.constraint.constraint_type.name = "TEMPORAL"
    /\ call.constraint.provenance # None
    /\ call.constraint.provenance[1].date = Some("2020")
    /\ ret.dict.constraint_type = "temporal"
    /\ ret.validate.provenance # None

\* The expressions _parse_logic_to_z3 gives for the constraints of a list, in
\* order, and the variables it has created by then.
RECURSIVE ParsedExpressions(_, _, _)
ParsedExpressions(cs, z3_vars, es) ==
    IF cs = <<>> THEN [exprs |-> es, vars |-> z3_vars]
    ELSE LET r == ParseLogicToZ3(Head(cs).logic_form, z3_vars)
         IN  ParsedExpressions(Tail(cs), r.vars,
                               IF r.kind = "expr" THEN Append(es, r.expr) ELSE es)

\* The conjunction of the expressions has a satisfying assignment.
Satisfiable(p) ==
    \E sigma \in [p.vars -> BOOLEAN] : \A k \in 1..Len(p.exprs) : EvalExpr(p.exprs[k], sigma)

CallParsed == ParsedExpressions(CallActive, DeclaredVars(CallActive), <<>>)

\* The verdict is sat exactly when the conjunction is satisfiable, and unsat
\* exactly when it is not.
VerdictIsTheFormulas ==
    /\ ~ret.raised
    /\ (ret.result.status = "sat") <=> Satisfiable(CallParsed)
    /\ (ret.result.status = "unsat") <=> ~Satisfiable(CallParsed)

\* C26: validate_consistency returns sat exactly when the conjunction of the
\* parsed expressions of the active constraints has a satisfying assignment
\* and unsat exactly when it has none, whatever the ids and the variable
\* names: also when an id is the name of a variable of some logic_form, or
\* when two constraints of the call have the same id.
C26_TrackingLiteralsNeutral ==
    (IsValidate /\ call.decides /\ CallActive # <<>>) => VerdictIsTheFormulas

\* For calls whose ids are pairwise distinct and are not names of variables,
\* and in which no logic_form evaluates to a Python object: the verdict is
\* the formula's, or the call raises while it explains an unsat core.
NeutralWhenIdsApart ==
    (IsValidate /\ call.decides /\ CallActive # <<>>
     /\ Cardinality(Ids(CallActive)) = Len(CallActive)
     /\ Ids(CallActive) \cap CallParsed.vars = {}
     /\ \A k \in 1..Len(CallActive) :
           ParseLogicToZ3(CallActive[k].logic_form, CallParsed.vars).kind # "pyobj")
        => /\ ret.raised => (ret.solver_invoked /\ ~Satisfiable(CallParsed))
           /\ ~ret.raised => /\ (ret.result.status = "sat") <=> Satisfiable(CallParsed)
                             /\ (ret.result.status = "unsat") <=> ~Satisfiable(CallParsed)

\* A call in which an id is the name of a variable gets the verdict unsat for
\* a satisfiable conjunction.
IdConstrainsFormula ==
    /\ IsValidate /\ ~ret.raised
    /\ Cardinality(Ids(CallActive)) = Len(CallActive)
    /\ Ids(CallActive) \cap CallParsed.vars # {}
    /\ ret.result.status = "unsat"
    /\ Satisfiable(CallParsed)

\* The level a ranker that has looked nothing up gives the source.
FreshLevel(source) == DetectAuthority(EmptyDict, source).info.level

\* C27: the level detect_authority returns for a source depends on the fields
\* of the source only: after any sequence of lookups on the ranker it is the
\* level a fresh ranker gives the source.
C27_LevelIndependentOfHistory ==
    (IsLookup /\ ~ret.raised) => ret.info.level = FreshLevel(call.source)

\* The same, for the first lookup of a (doc_title, court) key.
FreshOnFirstLookup ==
    [][MissStep => ret'.info.level = FreshLevel(call'.source)]_vars

IsParse == call.op = "_parse_logic_to_z3"

\* t is, as a whole, a production of the grammar.
IsProduction(t) ==
    \/ Len(t) = 3 /\ IsWord(t[1]) /\ t[2] \in {"==", "!="} /\ t[3] \in {"True", "False"}
    \/ Len(t) = 4 /\ t[1] = "Not" /\ t[2] = "(" /\ IsWord(t[3]) /\ t[4] = ")"
    \/ /\ Len(t) = 6
       /\ t[1] \in {"And", "Or", "Implies"} /\ t[2] = "("
       /\ IsWord(t[3]) /\ t[4] = "," /\ IsWord(t[5]) /\ t[6] = ")"

\* The expression the grammar gives a production.
ProductionExpr(t) ==
    IF Len(t) = 3
    THEN IF (t[2] = "==") = (t[3] = "True") THEN Var(t[1]) ELSE NotE(Var(t[1]))
    ELSE IF Len(t) = 4 THEN NotE(Var(t[3]))
    ELSE IF t[1] = "And" THEN AndE(<<Var(t[3]), Var(t[5])>>)
    ELSE IF t[1] = "Or" THEN OrE(<<Var(t[3]), Var(t[5])>>)
    ELSE ImpliesE(Var(t[3]), Var(t[5]))

\* The proper prefixes of t that are productions.
LeadingProductions(t) ==
    {n \in 1..(Len(t) - 1) : IsProduction(SubSeq(t, 1, n))}

\* C28: _parse_logic_to_z3 gives the expression of a production only for a
\* logic_form that is that production as a whole; a logic_form that begins
\* with a production and goes on is never parsed as that production alone.
C28_WholeStringParsed ==
    IsParse =>
        \A n \in LeadingProductions(call.logic_form) :
            ~(ret.kind = "expr" /\ ret.expr = ProductionExpr(SubSeq(call.logic_form, 1, n)))

\* A logic_form that is a production as a whole gets the production's expression.
WholeProductionsParsed ==
    (IsParse /\ IsProduction(call.logic_form))
        => (ret.kind = "expr" /\ ret.expr = ProductionExpr(call.logic_form))

\* The hard constraints of the call, in their order, and the soft ones.
HardSubList == SelectSeq(call.constraints, LAMBDA c : c.is_hard)

SoftOfCall == {c \in Range(call.constraints) : ~c.is_hard}

\* What the claim compares: whether the call raised, and the status, model
\* and unsat_core of its result.
Verdict(raised, result) ==
    [raised |-> raised, status |-> result.status, model |-> result.model,
     unsat_core |-> result.unsat_core]

VerdictsOf(outcomes) == {Verdict(o.raised, o.result) : o \in outcomes}

\* The verdicts of a fresh validator on a list, soft constraints left out.
FreshVerdicts(constraints) ==
    VerdictsOf(ValidateConsistency([k \in {} |-> None], EmptyDict, constraints, FALSE,
                                   call.decides))

ModelVars == IF ret.result.model = None THEN {} ELSE DOMAIN ret.result.model[1]

CoreIds == IF ret.result.unsat_core = None THEN {} ELSE Range(ret.result.unsat_core[1])

\* The ids and the variables that only soft constraints of the call have.
OnlySoftIds ==
    {c.id : c \in SoftOfCall} \ {HardSubList[k].id : k \in 1..Len(HardSubList)}

OnlySoftVars ==
    UNION {Range(c.variables) : c \in SoftOfCall} \ DeclaredVars(HardSubList)

SameAsOnHardSubList ==
    /\ FreshVerdicts(call.constraints) = FreshVerdicts(HardSubList)
    /\ Verdict(ret.raised, ret.result) \in FreshVerdicts(HardSubList)

\* C29: with include_soft false the soft constraints have no influence: the
\* status, model and unsat_core of validate_consistency are those of the call
\* on the sub-list of the hard constraints, and an id or a variable that only
\* soft constraints have appears neither in unsat_core nor in the model.
C29_SoftWithoutInfluence ==
    (IsValidate /\ ~call.include_soft)
        => /\ SameAsOnHardSubList
           /\ CoreIds \cap OnlySoftIds = {}
           /\ ModelVars \cap OnlySoftVars = {}

\* C29 as stated: in addition no soft constraint's id appears in unsat_core
\* and none of its variables appears in the model, shared with a hard
\* constraint or not.
C29_NoSoftIdNorVariable ==
    (IsValidate /\ ~call.include_soft)
        => /\ SameAsOnHardSubList
           /\ CoreIds \cap {c.id : c \in SoftOfCall} = {}
           /\ ModelVars \cap UNION {Range(c.variables) : c \in SoftOfCall} = {}

\* A soft constraint that contradicts a hard one is left out: the call is sat,
\* the solver ran, and a variable of the soft constraint is in the model
\* because the hard constraint has it too.
C29_Witness ==
    /\ IsValidate /\ ~call.include_soft /\ call.decides
    /\ ~ret.raised /\ ret.solver_invoked
    /\ ret.result.status = "sat"
    /\ \E c \in SoftOfCall :
          /\ Range(c.variables) \subseteq ModelVars
          /\ FreshVerdicts(HardSubList \o <<[c EXCEPT !.is_hard = TRUE]>>)
                 = {Verdict(TRUE, NoResult)}
                    \cup {v \in FreshVerdicts(HardSubList \o <<[c EXCEPT !.is_hard = TRUE]>>) :
                             v.status = "unsat"}

\* A call whose unsat_core is made of hard constraints while a soft one is in
\* the list.
SoftBesideUnsatCore ==
    /\ IsValidate /\ ~call.include_soft
    /\ ~ret.raised /\ ret.result.status = "unsat"
    /\ SoftOfCall # {}

\* C30: every constraint the pattern fallback produced has exactly one
\* variable, which no other constraint of the extractor has, and
\* validate_consistency on constraints obtained through the fallback alone
\* never returns unsat: it returns sat whenever the solver decides.
C30_FallbackJointlySatisfiable ==
    /\ \A k \in 1..Len(Gathered) :
          /\ Len(Gathered[k].variables) = 1
          /\ \A j \in 1..Len(Gathered) :
                j # k => Gathered[j].variables[1] # Gathered[k].variables[1]
    /\ IsValidate
          => /\ ~ret.raised
             /\ ret.result.status # "unsat"
             /\ call.decides => (ret.result.status = "sat" /\ ret.result.satisfiable)

\* Three fallback constraints of two interleaved calls, a negation and an
\* assertion of one quote among them, are validated by the solver and are sat.
C30_Witness ==
    /\ IsValidate /\ call.decides /\ ret.solver_invoked
    /\ Len(call.constraints) = 3
    /\ \E j, k \in 1..3 :
          /\ call.constraints[j].constraint_type = "negation"
          /\ call.constraints[k].constraint_type = "assertion"
          /\ call.constraints[j].provenance = call.constraints[k].provenance
    /\ extraction["t1"].constraints # <<>>
    /\ extraction["t2"].constraints # <<>>
    /\ ret.result.status = "sat"

====
